---- MODULE Spec2Model ----
(***************************************************************************)
(* Request execution core of the TiDB Cloud Go SDK: digest authentication  *)
(* (pkg/auth), failure classification (pkg/errors), retry policy and       *)
(* executor (pkg/retry) and the request dispatcher (pkg/client).           *)
(*                                                                         *)
(* One client serves a bounded number of logical calls, one after the      *)
(* other.  The server and the network are the environment: every send is   *)
(* answered by a transport failure or by one of a small set of responses.  *)
(***************************************************************************)
EXTENDS Integers, Sequences, FiniteSets, TLC

(***************************************************************************)
(* Bounds of the model.                                                    *)
(***************************************************************************)
\* largest RetryPolicy.MaxAttempts a retry executor is built with
MaxPolicyAttempts == 3
\* number of logical calls made on the client
MaxCalls == 2
\* largest attempt number CalculateDelay is called with
MaxAttemptNumber == 70
\* largest status code of an APIError
MaxStatusCode == 599
\* number of calls made on one DigestAuth
MaxAuthCalls == 3

(***************************************************************************)
(* int64 and time.Duration values: eight bytes, the least significant      *)
(* first, in two's complement.  Arithmetic wraps around as Go's does.      *)
(***************************************************************************)
RECURSIVE Bytes(_, _)
\* the k low bytes of n >= 0
Bytes(n, k) == IF k = 0 THEN <<>> ELSE <<n % 256>> \o Bytes(n \div 256, k - 1)

\* the int64 of value n, for 0 <= n < 2^31
Int64(n) == Bytes(n, 8)

\* math.MinInt64 and math.MaxInt64
MinInt64 == <<0, 0, 0, 0, 0, 0, 0, 128>>
MaxInt64 == <<255, 255, 255, 255, 255, 255, 255, 127>>

RECURSIVE ColumnSum(_, _, _, _)
\* a[1] * b[k] + a[2] * b[k - 1] + ... + a[i] * b[k + 1 - i]
ColumnSum(a, b, k, i) ==
    IF i = 0 THEN 0 ELSE a[i] * b[k + 1 - i] + ColumnSum(a, b, k, i - 1)

RECURSIVE MulFrom(_, _, _, _)
\* bytes k..8 of the product, carry coming in from the bytes below
MulFrom(a, b, k, carry) ==
    IF k > 8 THEN <<>>
    ELSE CHOOSE r \in {<<t % 256>> \o MulFrom(a, b, k + 1, t \div 256) :
                          t \in {ColumnSum(a, b, k, k) + carry}} : TRUE

\* a * b in int64: the low 64 bits of the product
Mul64(a, b) == MulFrom(a, b, 1, 0)

RECURSIVE LessFrom(_, _, _)
LessFrom(a, b, i) ==
    IF i = 0 THEN FALSE
    ELSE IF a[i] # b[i] THEN a[i] < b[i]
    ELSE LessFrom(a, b, i - 1)

\* a < b as signed 64-bit integers
Less64(a, b) ==
    LessFrom([a EXCEPT ![8] = (a[8] + 128) % 256],
             [b EXCEPT ![8] = (b[8] + 128) % 256], 8)

(***************************************************************************)
(* Program constants.                                                      *)
(***************************************************************************)
\* time.Second: a time.Duration counts nanoseconds
Second == Int64(1000000000)
DefaultMaxAttempts == 3
DefaultBaseDelay == Mul64(Int64(1), Second)
DefaultMaxDelay == Mul64(Int64(30), Second)
StatusOK == 200
StatusBadRequest == 400
StatusUnauthorized == 401
StatusForbidden == 403
StatusNotFound == 404
StatusTooManyRequests == 429
StatusInternalServerError == 500
StatusBadGateway == 502
StatusServiceUnavailable == 503
StatusGatewayTimeout == 504
RateLimitCode == 49900007

(***************************************************************************)
(* Strings.  TLC strings support Len, SubSeq and \o.                       *)
(***************************************************************************)
CharAt(s, i) == SubSeq(s, i, i)

HasPrefix(s, prefix) ==
    /\ Len(s) >= Len(prefix)
    /\ SubSeq(s, 1, Len(prefix)) = prefix

TrimPrefix(s, prefix) ==
    IF HasPrefix(s, prefix) THEN SubSeq(s, Len(prefix) + 1, Len(s)) ELSE s

HexDigits == <<"0", "1", "2", "3", "4", "5", "6", "7",
               "8", "9", "a", "b", "c", "d", "e", "f">>

RECURSIVE Hex(_)
\* fmt's %x of a non-negative integer
Hex(n) == IF n < 16 THEN HexDigits[n + 1]
          ELSE Hex(n \div 16) \o HexDigits[(n % 16) + 1]

RECURSIVE PadZero(_, _)
PadZero(s, width) == IF Len(s) >= width THEN s ELSE PadZero("0" \o s, width)

\* fmt's %08x
Hex8(n) == PadZero(Hex(n), 8)

\* crypto/md5 followed by %x: a collision-free symbolic digest
MD5Hex(s) == "md5(" \o s \o ")"

(***************************************************************************)
(* pkg/errors: APIError and its predicates.  Error values are records; the *)
(* field kind is the dynamic type of the Go error value.                   *)
(***************************************************************************)
NoError == [kind |-> "nil"]

APIError(status, code, message, details) ==
    [kind |-> "errors.APIError", StatusCode |-> status, Code |-> code,
     Message |-> message, Details |-> details]

\* errors.New / fmt.Errorf values, identified by their message
PlainError(msg) == [kind |-> "error", msg |-> msg]

\* the error http.Client.Do returns when no response was received
TransportError(msg) == [kind |-> "*url.Error", msg |-> msg]

\* err.Error()
ErrorString(err) ==
    IF err.kind = "errors.APIError"
    THEN "TiDB Cloud API error (" \o ToString(err.StatusCode) \o "): "
         \o err.Message \o " (code: " \o ToString(err.Code) \o ")"
    ELSE err.msg

\* fmt.Errorf("...: %w", err): a *fmt.wrapError, with err behind Unwrap()
WrapError(prefix, err) ==
    [kind |-> "*fmt.wrapError", msg |-> prefix \o ErrorString(err),
     unwrap |-> err]

\* ctx.Err() of a context that is done.  Canceled and DeadlineExceeded take
\* the same path through the code; the model has the first.
ContextCanceled == [kind |-> "context", msg |-> "context canceled"]

IsAPIError(err) == err.kind = "errors.APIError"

IsRateLimitErrorByStatusOnly(e) ==
    e.StatusCode = StatusTooManyRequests

IsRateLimitError(e) ==
    e.StatusCode = StatusTooManyRequests /\ e.Code = RateLimitCode

IsRetryableIncluding401(e) ==
    e.StatusCode \in {StatusUnauthorized, StatusTooManyRequests,
                      StatusInternalServerError, StatusBadGateway,
                      StatusServiceUnavailable, StatusGatewayTimeout}

IsRetryableAnyServerError(e) ==
    e.StatusCode = StatusTooManyRequests
    \/ e.StatusCode >= StatusInternalServerError

IsRetryable(e) ==
    e.StatusCode \in {StatusTooManyRequests, StatusInternalServerError,
                      StatusBadGateway, StatusServiceUnavailable,
                      StatusGatewayTimeout}

IsAuthenticationError(e) == e.StatusCode = StatusUnauthorized
IsAuthorizationError(e) == e.StatusCode = StatusForbidden
IsNotFoundError(e) == e.StatusCode = StatusNotFound
IsBadRequestError(e) == e.StatusCode = StatusBadRequest

(***************************************************************************)
(* pkg/retry: RetryPolicy.                                                 *)
(***************************************************************************)
NewRetryPolicy ==
    [MaxAttempts |-> DefaultMaxAttempts,
     BaseDelay   |-> DefaultBaseDelay,
     MaxDelay    |-> DefaultMaxDelay]

ShouldRetryOneFewer(p, err, attempt) ==
    IF attempt + 1 >= p.MaxAttempts THEN FALSE
    ELSE IF IsAPIError(err) THEN IsRetryable(err)
    ELSE TRUE

ShouldRetryIgnoringClass(p, err, attempt) ==
    IF attempt >= p.MaxAttempts THEN FALSE
    ELSE TRUE

ShouldRetryNeverTransport(p, err, attempt) ==
    IF attempt >= p.MaxAttempts THEN FALSE
    ELSE IF IsAPIError(err) THEN IsRetryable(err)
    ELSE FALSE

ShouldRetry(p, err, attempt) ==
    IF attempt >= p.MaxAttempts THEN FALSE
    ELSE IF IsAPIError(err) THEN IsRetryable(err)
    ELSE TRUE

RECURSIVE Pow2(_)
\* 2^e for a small e >= 0
Pow2(e) == IF e <= 0 THEN 1 ELSE 2 * Pow2(e - 1)

\* what a conversion of a float64 above the int64 range yields: the Go
\* specification leaves it to the implementation; amd64 gives MinInt64 and
\* arm64 saturates to MaxInt64
OutOfRangeConversions == {MinInt64, MaxInt64}

\* time.Duration(math.Pow(2, float64(e))): the power is exact in float64
\* (+Inf from e = 1024 on), a fraction below e = 0 truncates to 0, and from
\* e = 63 on the value is out of range and the conversion yields conv
DurationOfPow(e, conv) ==
    IF e < 0 THEN Int64(0)
    ELSE IF e <= 62
    THEN [i \in 1..8 |-> IF i - 1 = e \div 8 THEN Pow2(e % 8) ELSE 0]
    ELSE conv

\* CalculateDelay in a build whose out-of-range conversions yield conv
CalculateDelay(p, attempt, conv) ==
    LET delay == Mul64(DurationOfPow(attempt - 1, conv), p.BaseDelay)
    IN  IF Less64(p.MaxDelay, delay) THEN p.MaxDelay ELSE delay

(***************************************************************************)
(* pkg/auth: DigestAuth.                                                   *)
(***************************************************************************)
NewDigestAuth ==
    [realm |-> "", nonce |-> "", qop |-> "", opaque |-> "",
     algorithm |-> "", nc |-> 1, cnonce |-> ""]

\* the regexp class \w
WordChars ==
    {"a", "b", "c", "d", "e", "f", "g", "h", "i", "j", "k", "l", "m",
     "n", "o", "p", "q", "r", "s", "t", "u", "v", "w", "x", "y", "z",
     "A", "B", "C", "D", "E", "F", "G", "H", "I", "J", "K", "L", "M",
     "N", "O", "P", "Q", "R", "S", "T", "U", "V", "W", "X", "Y", "Z",
     "0", "1", "2", "3", "4", "5", "6", "7", "8", "9", "_"}

\* the regexp class \s
SpaceChars == {" ", "\t", "\n", "\f", "\r"}

\* first index at or after i whose character is in cs (stopAtMember) or is
\* not in cs (~stopAtMember); Len(s) + 1 when there is none
RunEnd(s, i, cs, stopAtMember) ==
    IF i > Len(s) THEN i
    ELSE CHOOSE j \in i..(Len(s) + 1) :
            /\ j = Len(s) + 1 \/ (CharAt(s, j) \in cs) = stopAtMember
            /\ \A k \in i..(j - 1) : (CharAt(s, k) \in cs) # stopAtMember

\* one match of (\w+)=(?:"([^"]*)"|([^,\s]+)) anchored at index p
MatchAt(s, p) ==
    LET q == RunEnd(s, p, WordChars, FALSE)
        r == RunEnd(s, q + 2, {"\""}, TRUE)
        e == RunEnd(s, q + 1, {","} \cup SpaceChars, TRUE)
        noMatch == [ok |-> FALSE, key |-> "", quoted |-> "", bare |-> "",
                    end |-> q]
    IN  IF q = p \/ q > Len(s) \/ CharAt(s, q) # "=" THEN noMatch
        ELSE IF q + 1 <= Len(s) /\ CharAt(s, q + 1) = "\"" /\ r <= Len(s)
        THEN [ok |-> TRUE, key |-> SubSeq(s, p, q - 1),
              quoted |-> SubSeq(s, q + 2, r - 1), bare |-> "", end |-> r + 1]
        ELSE IF e > q + 1
        THEN [ok |-> TRUE, key |-> SubSeq(s, p, q - 1),
              quoted |-> "", bare |-> SubSeq(s, q + 1, e - 1), end |-> e]
        ELSE noMatch

MapGet(pairs, key) == IF key \in DOMAIN pairs THEN pairs[key] ELSE ""

MapSet(pairs, key, value) ==
    [k \in DOMAIN pairs \cup {key} |-> IF k = key THEN value ELSE pairs[k]]

RECURSIVE FindAllPairs(_, _, _)
\* FindAllStringSubmatch from index p on, folded into the map as the
\* loop of parseKeyValuePairs does; a failed anchor inside a run of word
\* characters fails at every later anchor of that run
FindAllPairs(s, p, pairs) ==
    IF p > Len(s) THEN pairs
    ELSE LET m == MatchAt(s, p)
             value == IF m.quoted = "" THEN m.bare ELSE m.quoted
         IN  IF m.ok THEN FindAllPairs(s, m.end, MapSet(pairs, m.key, value))
             ELSE FindAllPairs(s, IF m.end > p THEN m.end ELSE p + 1, pairs)

parseKeyValuePairs(data) == FindAllPairs(data, 1, <<>>)

ParseChallengeWithoutRealmCheck(d, authHeader, cnonce) ==
    IF authHeader = ""
    THEN [auth |-> d, err |-> PlainError("empty auth header")]
    ELSE IF ~HasPrefix(authHeader, "Digest ")
    THEN [auth |-> d, err |-> PlainError("not a digest auth header")]
    ELSE LET pairs == parseKeyValuePairs(TrimPrefix(authHeader, "Digest "))
             alg == MapGet(pairs, "algorithm")
             d1 == [d EXCEPT !.realm = MapGet(pairs, "realm"),
                             !.nonce = MapGet(pairs, "nonce"),
                             !.qop = MapGet(pairs, "qop"),
                             !.opaque = MapGet(pairs, "opaque"),
                             !.algorithm = IF alg = "" THEN "MD5" ELSE alg]
         IN  IF d1.nonce = ""
             THEN [auth |-> d1,
                   err |-> PlainError("missing nonce in digest challenge")]
             ELSE [auth |-> [d1 EXCEPT !.cnonce = cnonce], err |-> NoError]

ParseChallengeKeepsAbsentFields(d, authHeader, cnonce) ==
    IF authHeader = ""
    THEN [auth |-> d, err |-> PlainError("empty auth header")]
    ELSE IF ~HasPrefix(authHeader, "Digest ")
    THEN [auth |-> d, err |-> PlainError("not a digest auth header")]
    ELSE LET pairs == parseKeyValuePairs(TrimPrefix(authHeader, "Digest "))
             alg == MapGet(pairs, "algorithm")
             qop == MapGet(pairs, "qop")
             opaque == MapGet(pairs, "opaque")
             d1 == [d EXCEPT !.realm = MapGet(pairs, "realm"),
                             !.nonce = MapGet(pairs, "nonce"),
                             !.qop = IF qop = "" THEN d.qop ELSE qop,
                             !.opaque = IF opaque = "" THEN d.opaque
                                        ELSE opaque,
                             !.algorithm = IF alg = "" THEN "MD5" ELSE alg]
         IN  IF d1.realm = ""
             THEN [auth |-> d1,
                   err |-> PlainError("missing realm in digest challenge")]
             ELSE IF d1.nonce = ""
             THEN [auth |-> d1,
                   err |-> PlainError("missing nonce in digest challenge")]
             ELSE [auth |-> [d1 EXCEPT !.cnonce = cnonce], err |-> NoError]

\* the result of ParseChallenge on receiver d: the receiver afterwards and
\* the returned error; cnonce is what generateCnonce returns if it is called
ParseChallenge(d, authHeader, cnonce) ==
    IF authHeader = ""
    THEN [auth |-> d, err |-> PlainError("empty auth header")]
    ELSE IF ~HasPrefix(authHeader, "Digest ")
    THEN [auth |-> d, err |-> PlainError("not a digest auth header")]
    ELSE LET pairs == parseKeyValuePairs(TrimPrefix(authHeader, "Digest "))
             alg == MapGet(pairs, "algorithm")
             d1 == [d EXCEPT !.realm = MapGet(pairs, "realm"),
                             !.nonce = MapGet(pairs, "nonce"),
                             !.qop = MapGet(pairs, "qop"),
                             !.opaque = MapGet(pairs, "opaque"),
                             !.algorithm = IF alg = "" THEN "MD5" ELSE alg]
         IN  IF d1.realm = ""
             THEN [auth |-> d1,
                   err |-> PlainError("missing realm in digest challenge")]
             ELSE IF d1.nonce = ""
             THEN [auth |-> d1,
                   err |-> PlainError("missing nonce in digest challenge")]
             ELSE [auth |-> [d1 EXCEPT !.cnonce = cnonce], err |-> NoError]

generateHA1(d, username, password) ==
    MD5Hex(username \o ":" \o d.realm \o ":" \o password)

generateHA2(method, uri) == MD5Hex(method \o ":" \o uri)

generateResponseWithQopUnpaddedCount(d, ha1, ha2) ==
    MD5Hex(ha1 \o ":" \o d.nonce \o ":" \o Hex(d.nc) \o ":" \o d.cnonce
           \o ":" \o d.qop \o ":" \o ha2)

generateResponseWithQop(d, ha1, ha2) ==
    MD5Hex(ha1 \o ":" \o d.nonce \o ":" \o Hex8(d.nc) \o ":" \o d.cnonce
           \o ":" \o d.qop \o ":" \o ha2)

generateResponseWithoutQop(d, ha1, ha2) ==
    MD5Hex(ha1 \o ":" \o d.nonce \o ":" \o ha2)

AuthHeaderFieldsWrongUri(d, username, password, method, uri) ==
    LET ha1 == generateHA1(d, username, password)
        ha2 == generateHA2(method, uri)
        response == IF d.qop = "auth"
                    THEN generateResponseWithQop(d, ha1, ha2)
                    ELSE generateResponseWithoutQop(d, ha1, ha2)
    IN  <<"username=\"" \o username \o "\"",
          ", realm=\"" \o d.realm \o "\"",
          ", nonce=\"" \o d.nonce \o "\"",
          ", uri=\"" \o method \o "\"",
          ", response=\"" \o response \o "\"">>
        \o (IF d.qop # ""
            THEN <<", qop=" \o d.qop,
                   ", nc=" \o Hex8(d.nc),
                   ", cnonce=\"" \o d.cnonce \o "\"">>
            ELSE <<>>)
        \o (IF d.opaque # "" THEN <<", opaque=\"" \o d.opaque \o "\"">>
            ELSE <<>>)
        \o (IF d.algorithm # "" THEN <<", algorithm=" \o d.algorithm>>
            ELSE <<>>)

AuthHeaderFieldsQopOnlyAuth(d, username, password, method, uri) ==
    LET ha1 == generateHA1(d, username, password)
        ha2 == generateHA2(method, uri)
        response == IF d.qop = "auth"
                    THEN generateResponseWithQop(d, ha1, ha2)
                    ELSE generateResponseWithoutQop(d, ha1, ha2)
    IN  <<"username=\"" \o username \o "\"",
          ", realm=\"" \o d.realm \o "\"",
          ", nonce=\"" \o d.nonce \o "\"",
          ", uri=\"" \o uri \o "\"",
          ", response=\"" \o response \o "\"">>
        \o (IF d.qop = "auth"
            THEN <<", qop=" \o d.qop,
                   ", nc=" \o Hex8(d.nc),
                   ", cnonce=\"" \o d.cnonce \o "\"">>
            ELSE <<>>)
        \o (IF d.opaque # "" THEN <<", opaque=\"" \o d.opaque \o "\"">>
            ELSE <<>>)
        \o (IF d.algorithm # "" THEN <<", algorithm=" \o d.algorithm>>
            ELSE <<>>)

\* the fields GenerateAuthHeader writes, in the order it writes them
AuthHeaderFields(d, username, password, method, uri) ==
    LET ha1 == generateHA1(d, username, password)
        ha2 == generateHA2(method, uri)
        response == IF d.qop = "auth"
                    THEN generateResponseWithQop(d, ha1, ha2)
                    ELSE generateResponseWithoutQop(d, ha1, ha2)
    IN  <<"username=\"" \o username \o "\"",
          ", realm=\"" \o d.realm \o "\"",
          ", nonce=\"" \o d.nonce \o "\"",
          ", uri=\"" \o uri \o "\"",
          ", response=\"" \o response \o "\"">>
        \o (IF d.qop # ""
            THEN <<", qop=" \o d.qop,
                   ", nc=" \o Hex8(d.nc),
                   ", cnonce=\"" \o d.cnonce \o "\"">>
            ELSE <<>>)
        \o (IF d.opaque # "" THEN <<", opaque=\"" \o d.opaque \o "\"">>
            ELSE <<>>)
        \o (IF d.algorithm # "" THEN <<", algorithm=" \o d.algorithm>>
            ELSE <<>>)

RECURSIVE Concat(_)
Concat(parts) == IF parts = <<>> THEN "" ELSE Head(parts) \o Concat(Tail(parts))

GenerateAuthHeader(d, username, password, method, uri) ==
    IF d.nonce = "" THEN ""
    ELSE "Digest " \o Concat(AuthHeaderFields(d, username, password, method, uri))

(***************************************************************************)
(* The environment: requests the resource operations prepare, and the      *)
(* answers of the server.                                                  *)
(***************************************************************************)
\* a request without a body (http.NewRequest with a nil body)
NilBody == "<nil>"

\* the key pair NewClient was given
PublicKey == "pub"
PrivateKey == "priv"

\* the requests GetPrivateEndpointService and CreatePrivateEndpoint prepare
Requests ==
    {[Method |-> "GET",
      Path |-> "/api/v1beta/projects/p/clusters/c/private_endpoint_service",
      ContentType |-> "", Body |-> NilBody],
     [Method |-> "POST",
      Path |-> "/api/v1beta/projects/p/clusters/c/private_endpoints",
      ContentType |-> "application/json",
      Body |-> "{\"endpoint_name\":\"e\"}"]}

\* values of the WWW-Authenticate header of a 401 response; "" is no header
Challenges ==
    {"",
     "Digest realm=\"tidbcloud\", nonce=\"dcd98b\", qop=\"auth\", opaque=\"5ccc\", algorithm=\"MD5\"",
     "Digest realm=tidb, nonce=\"0a4f\"",
     "Digest realm=\"tidbcloud\", qop=\"auth\"",
     "Basic realm=\"tidbcloud\""}

\* values generateCnonce returns
CNonces == {"6b1f", "e0c2"}

\* JSON bodies of responses, as models.ErrorResponse decodes them
UndecodableBody ==
    [decodes |-> FALSE, hasCode |-> FALSE, Code |-> 0,
     hasMessage |-> FALSE, Message |-> "", Details |-> <<>>]

RateLimitBody ==
    [decodes |-> TRUE, hasCode |-> TRUE, Code |-> RateLimitCode,
     hasMessage |-> TRUE, Message |-> "rate limit", Details |-> <<>>]

KeyNotFoundBody ==
    [decodes |-> TRUE, hasCode |-> TRUE, Code |-> 49900001,
     hasMessage |-> TRUE, Message |-> "public_key not found",
     Details |-> <<[reason |-> "key"]>>]

SuccessBody ==
    [decodes |-> TRUE, hasCode |-> FALSE, Code |-> 0,
     hasMessage |-> FALSE, Message |-> "", Details |-> <<>>]

ErrorStatuses ==
    {StatusBadRequest, StatusForbidden, StatusNotFound,
     StatusInternalServerError, StatusBadGateway,
     StatusServiceUnavailable, StatusGatewayTimeout}

\* values of the X-Ratelimit-Reset header; "" is no header
ResetHeaders == {"", "1700000000", "soon"}

\* header values only a direct call of parseAPIError is given
SignedResetHeaders == {"-1", "+60", "-", "17e8"}

Response(status, challenge, reset, body) ==
    [StatusCode |-> status, WWWAuthenticate |-> challenge,
     RatelimitReset |-> reset, Body |-> body]

\* every error status with a body that does not decode; 400 and 429 also
\* with decodable bodies, 401 with every challenge, 429 with and without
\* a reset time
ServerResponses ==
    {Response(StatusOK, "", "", SuccessBody)}
    \cup {Response(st, "", "", UndecodableBody) : st \in ErrorStatuses}
    \cup {Response(StatusBadRequest, "", "", KeyNotFoundBody)}
    \cup {Response(StatusUnauthorized, ch, "", KeyNotFoundBody) :
              ch \in Challenges}
    \cup {Response(StatusTooManyRequests, "", "1700000000", RateLimitBody),
          Response(StatusTooManyRequests, "", "", UndecodableBody)}

NoResponse == Response(0, "", "", SuccessBody)

\* the errors http.Client.Do returns without a response
TransportErrors == {TransportError("dial tcp: connection refused")}

(***************************************************************************)
(* pkg/client: failure classification.                                     *)
(***************************************************************************)
StatusText(status) ==
    CASE status = StatusBadRequest -> "Bad Request"
      [] status = StatusUnauthorized -> "Unauthorized"
      [] status = StatusForbidden -> "Forbidden"
      [] status = StatusNotFound -> "Not Found"
      [] status = StatusTooManyRequests -> "Too Many Requests"
      [] status = StatusInternalServerError -> "Internal Server Error"
      [] status = StatusBadGateway -> "Bad Gateway"
      [] status = StatusServiceUnavailable -> "Service Unavailable"
      [] status = StatusGatewayTimeout -> "Gateway Timeout"
      [] status = StatusOK -> "OK"
      [] OTHER -> ""

Digits == <<"0", "1", "2", "3", "4", "5", "6", "7", "8", "9">>

DigitValue(c) == (CHOOSE i \in 1..10 : Digits[i] = c) - 1

RECURSIVE ParseDigits(_, _, _)
ParseDigits(s, i, acc) ==
    IF i > Len(s) THEN acc
    ELSE ParseDigits(s, i + 1, 10 * acc + DigitValue(CharAt(s, i)))

\* strconv.ParseInt(s, 10, 64) on the header values of the model, none of
\* which leaves the int64 range: an optional sign, then digits only
ParseInt(s) ==
    LET signed == s # "" /\ CharAt(s, 1) \in {"+", "-"}
        first == IF signed THEN 2 ELSE 1
    IN  IF /\ first <= Len(s)
           /\ \A i \in first..Len(s) : \E d \in 1..10 : Digits[d] = CharAt(s, i)
        THEN [ok |-> TRUE,
              value |-> IF signed /\ CharAt(s, 1) = "-"
                        THEN 0 - ParseDigits(s, first, 0)
                        ELSE ParseDigits(s, first, 0)]
        ELSE [ok |-> FALSE, value |-> 0]

parseAPIErrorAnyStatus(resp) ==
    LET body == resp.Body
        code == IF body.decodes /\ body.hasCode THEN body.Code ELSE 0
        message == IF body.decodes
                   THEN (IF body.hasMessage THEN body.Message ELSE "")
                   ELSE StatusText(resp.StatusCode)
        details == IF body.decodes THEN body.Details ELSE <<>>
        reset == ParseInt(resp.RatelimitReset)
    IN  APIError(resp.StatusCode, code, message,
                 IF resp.RatelimitReset # "" /\ reset.ok
                 THEN Append(details, [rate_limit_reset |-> reset.value])
                 ELSE details)

parseAPIError(resp) ==
    LET body == resp.Body
        code == IF body.decodes /\ body.hasCode THEN body.Code ELSE 0
        message == IF body.decodes
                   THEN (IF body.hasMessage THEN body.Message ELSE "")
                   ELSE StatusText(resp.StatusCode)
        details == IF body.decodes THEN body.Details ELSE <<>>
        reset == ParseInt(resp.RatelimitReset)
    IN  APIError(resp.StatusCode, code, message,
                 IF /\ resp.StatusCode = StatusTooManyRequests
                    /\ resp.RatelimitReset # ""
                    /\ reset.ok
                 THEN Append(details, [rate_limit_reset |-> reset.value])
                 ELSE details)

(***************************************************************************)
(* pkg/client: the constructor.                                            *)
(***************************************************************************)
DefaultBaseURL == "https://api.tidbcloud.com"

\* a nil *Client
NilClient == [kind |-> "nil"]

NewRetryExecutor(p) == [policy |-> p]

NewClientWithoutPrivateKeyCheck(publicKey, privateKey) ==
    IF publicKey = ""
    THEN [client |-> NilClient, err |-> PlainError("public key is required")]
    ELSE [client |-> [kind |-> "*Client",
                      baseURL |-> DefaultBaseURL,
                      httpClient |-> [Timeout |-> Mul64(Int64(30), Second)],
                      publicKey |-> publicKey,
                      privateKey |-> privateKey,
                      digestAuth |-> NewDigestAuth,
                      retryExecutor |-> NewRetryExecutor(NewRetryPolicy)],
          err |-> NoError]

\* NewClient(publicKey, privateKey): the client and the error it returns
NewClientOf(publicKey, privateKey) ==
    IF publicKey = ""
    THEN [client |-> NilClient, err |-> PlainError("public key is required")]
    ELSE IF privateKey = ""
    THEN [client |-> NilClient, err |-> PlainError("private key is required")]
    ELSE [client |-> [kind |-> "*Client",
                      baseURL |-> DefaultBaseURL,
                      httpClient |-> [Timeout |-> Mul64(Int64(30), Second)],
                      publicKey |-> publicKey,
                      privateKey |-> privateKey,
                      digestAuth |-> NewDigestAuth,
                      retryExecutor |-> NewRetryExecutor(NewRetryPolicy)],
          err |-> NoError]

(***************************************************************************)
(* State.                                                                  *)
(***************************************************************************)
VARIABLES
    policy,        \* RetryExecutor.policy
    digestAuth,    \* Client.digestAuth
    calls,         \* logical calls started on the client so far
    pc,            \* where the current logical call stands
    ctxErr,        \* ctx.Err() of the call's context; NoError until done
    req,           \* the caller's *http.Request; Body is what is left to read
    bodyBytes,     \* doRequestWithRetry's buffered copy of the body
    attempt,       \* Execute's loop variable
    lastErr,       \* Execute's lastErr
    finalResp,     \* doRequestWithRetry's finalResp
    finalErr,      \* doRequestWithRetry's finalErr
    delay,         \* the delay of the current backoff wait
    inflight,      \* the request handed to httpClient.Do and not yet answered
    execResult,    \* what Execute returned
    result,        \* what doRequestWithRetry returned: [resp, err]
    \* history of the current logical call
    callCount,     \* invocations of the operation
    sendCount,     \* calls of httpClient.Do
    attemptSends,  \* the requests sent in the latest invocation, in order
    attemptResps,  \* the answers to them; NoResponse is a transport failure
    parseCount,    \* ParseChallenge calls in the latest invocation
    lastOpErr,     \* what the latest invocation of the operation returned
    waits,         \* the delays of the backoff waits started, in order
    allRetryable,  \* every invocation so far returned a retryable APIError
    uniformStatus, \* the status of every response so far; 0 none, -1 mixed
    cancelledWait, \* Execute left a backoff wait through ctx.Done()
    openBodies,    \* responses received whose Body has not been closed
    \* goroutines that run executeHTTPRequest on the one Client at a time
    goPc,          \* where each goroutine stands
    goAuthHeader,  \* executeHTTPRequest's authHeader, per goroutine
    goPairs,       \* ParseChallenge's pairs, per goroutine
    goCnonce,      \* what generateCnonce returned to each goroutine
    goAuthValue,   \* executeHTTPRequest's authValue, per goroutine
    \* a direct call of one exported function or method
    fnCall,        \* the function and its arguments
    fnReturn,      \* what it returned; NotReturned before the call
    \* the calls made on one DigestAuth by a caller of package auth
    authLog        \* the calls so far, in order, each with what it returned

\* the state of one logical call, Client.digestAuth aside
callVars == <<policy, calls, pc, ctxErr, req, bodyBytes, attempt,
              lastErr, finalResp, finalErr, delay, inflight, execResult,
              result, callCount, sendCount, attemptSends, attemptResps,
              parseCount, lastOpErr, waits, allRetryable, uniformStatus,
              cancelledWait, openBodies>>

goVars == <<goPc, goAuthHeader, goPairs, goCnonce, goAuthValue>>

fnVars == <<fnCall, fnReturn>>

vars == <<callVars, digestAuth, goVars, fnVars, authLog>>

NoRequest == [Method |-> "", Path |-> "", ContentType |-> "", Body |-> NilBody]

NoSend == [Method |-> "", Path |-> "", ContentType |-> "",
           Authorization |-> "", Body |-> NilBody]

NoResult == [resp |-> NoResponse, err |-> NoError]

Goroutines == {1, 2}

NotReturned == [fn |-> "", value |-> FALSE]

\* the Client NewClient(PublicKey, PrivateKey) returns, before any call
NewClient ==
    /\ digestAuth = NewDigestAuth
    /\ calls = 0
    /\ pc = "idle"
    /\ ctxErr = NoError
    /\ req = NoRequest
    /\ bodyBytes = NilBody
    /\ attempt = 0
    /\ lastErr = NoError
    /\ finalResp = NoResponse
    /\ finalErr = NoError
    /\ delay = Int64(0)
    /\ inflight = NoSend
    /\ execResult = NoError
    /\ result = NoResult
    /\ callCount = 0
    /\ sendCount = 0
    /\ attemptSends = <<>>
    /\ attemptResps = <<>>
    /\ parseCount = 0
    /\ lastOpErr = NoError
    /\ waits = <<>>
    /\ allRetryable = TRUE
    /\ uniformStatus = 0
    /\ cancelledWait = FALSE
    /\ openBodies = 0

\* no goroutine is inside executeHTTPRequest
NoGoroutine ==
    /\ goPc = [g \in Goroutines |-> "idle"]
    /\ goAuthHeader = [g \in Goroutines |-> ""]
    /\ goPairs = [g \in Goroutines |-> <<>>]
    /\ goCnonce = [g \in Goroutines |-> ""]
    /\ goAuthValue = [g \in Goroutines |-> ""]

\* no exported function is called directly
NoFunctionCall ==
    /\ fnCall = [fn |-> ""]
    /\ fnReturn = NotReturned

\* no call was made on the DigestAuth
NoAuthCall == authLog = <<>>

\* NewClient builds the executor with NewRetryPolicy; NewRetryExecutor
\* accepts any policy, so MaxAttempts ranges over 0..bound
Init ==
    /\ policy \in {[NewRetryPolicy EXCEPT !.MaxAttempts = n] :
                      n \in 0..MaxPolicyAttempts}
    /\ NewClient
    /\ NoGoroutine
    /\ NoFunctionCall
    /\ NoAuthCall

(***************************************************************************)
(* Steps shared by the actions.  Each is a piece of straight-line code     *)
(* between two points where the call waits for the network or a timer.     *)
(***************************************************************************)
\* doRequestWithRetry after Execute returned execErr
DoRequestReturn(execErr, fResp, fErr) ==
    /\ execResult' = execErr
    /\ result' = IF execErr # NoError
                 THEN [resp |-> NoResponse, err |-> fErr]
                 ELSE [resp |-> fResp, err |-> NoError]
    /\ pc' = "returned"

ExecuteAfterOperationKeepsFirstErr(err) ==
    /\ lastOpErr' = err
    /\ allRetryable' = (allRetryable /\ IsAPIError(err) /\ IsRetryable(err))
    /\ IF err = NoError
       THEN /\ DoRequestReturn(NoError, finalResp', finalErr')
            /\ UNCHANGED <<lastErr, delay, waits>>
       ELSE /\ lastErr' = IF lastErr = NoError THEN err ELSE lastErr
            /\ IF ~ShouldRetry(policy, err, attempt)
               THEN /\ DoRequestReturn(lastErr', finalResp', finalErr')
                    /\ UNCHANGED <<delay, waits>>
               ELSE /\ delay' \in {CalculateDelay(policy, attempt + 1, conv) :
                                   conv \in OutOfRangeConversions}
                    /\ waits' = Append(waits, delay')
                    /\ pc' = "waiting"
                    /\ UNCHANGED <<execResult, result>>

ExecuteAfterOperationNoEarlyReturn(err) ==
    /\ lastOpErr' = err
    /\ allRetryable' = (allRetryable /\ IsAPIError(err) /\ IsRetryable(err))
    /\ lastErr' = err
    /\ IF ~ShouldRetry(policy, err, attempt)
       THEN /\ DoRequestReturn(lastErr', finalResp', finalErr')
            /\ UNCHANGED <<delay, waits>>
       ELSE /\ delay' \in {CalculateDelay(policy, attempt + 1, conv) :
                                   conv \in OutOfRangeConversions}
            /\ waits' = Append(waits, delay')
            /\ pc' = "waiting"
            /\ UNCHANGED <<execResult, result>>

ExecuteAfterOperationDelayOfLoopIndex(err) ==
    /\ lastOpErr' = err
    /\ allRetryable' = (allRetryable /\ IsAPIError(err) /\ IsRetryable(err))
    /\ IF err = NoError
       THEN /\ DoRequestReturn(NoError, finalResp', finalErr')
            /\ UNCHANGED <<lastErr, delay, waits>>
       ELSE /\ lastErr' = err
            /\ IF ~ShouldRetry(policy, err, attempt)
               THEN /\ DoRequestReturn(lastErr', finalResp', finalErr')
                    /\ UNCHANGED <<delay, waits>>
               ELSE /\ delay' \in {CalculateDelay(policy, attempt, conv) :
                                   conv \in OutOfRangeConversions}
                    /\ waits' = Append(waits, delay')
                    /\ pc' = "waiting"
                    /\ UNCHANGED <<execResult, result>>

\* Execute from the return of operation() to the select or the return
ExecuteAfterOperation(err) ==
    /\ lastOpErr' = err
    /\ allRetryable' = (allRetryable /\ IsAPIError(err) /\ IsRetryable(err))
    /\ IF err = NoError
       THEN /\ DoRequestReturn(NoError, finalResp', finalErr')
            /\ UNCHANGED <<lastErr, delay, waits>>
       ELSE /\ lastErr' = err
            /\ IF ~ShouldRetry(policy, err, attempt)
               THEN /\ DoRequestReturn(lastErr', finalResp', finalErr')
                    /\ UNCHANGED <<delay, waits>>
               ELSE /\ delay' \in {CalculateDelay(policy, attempt + 1, conv) :
                                   conv \in OutOfRangeConversions}
                    /\ waits' = Append(waits, delay')
                    /\ pc' = "waiting"
                    /\ UNCHANGED <<execResult, result>>

OperationReturnsWithoutClose(resp, err) ==
    IF err # NoError
    THEN /\ finalErr' = err
         /\ finalResp' = finalResp
         /\ openBodies' = openBodies
         /\ ExecuteAfterOperation(err)
    ELSE IF resp.StatusCode >= 400
    THEN /\ finalErr' = parseAPIError(resp)
         /\ finalResp' = finalResp
         /\ openBodies' = openBodies + 1
         /\ ExecuteAfterOperation(parseAPIError(resp))
    ELSE /\ finalResp' = resp
         /\ finalErr' = finalErr
         /\ openBodies' = openBodies + 1
         /\ ExecuteAfterOperation(NoError)

\* the operation closure after executeHTTPRequest returned (resp, err); a
\* response executeHTTPRequest returns arrives with its Body open, and the
\* closure closes the Body of a response it classifies
OperationReturns(resp, err) ==
    IF err # NoError
    THEN /\ finalErr' = err
         /\ finalResp' = finalResp
         /\ openBodies' = openBodies
         /\ ExecuteAfterOperation(err)
    ELSE IF resp.StatusCode >= 400
    THEN /\ finalErr' = parseAPIError(resp)
         /\ finalResp' = finalResp
         /\ openBodies' = (openBodies + 1) - 1
         /\ ExecuteAfterOperation(parseAPIError(resp))
    ELSE /\ finalResp' = resp
         /\ finalErr' = finalErr
         /\ openBodies' = openBodies + 1
         /\ ExecuteAfterOperation(NoError)

InvokeOperationWithoutRestore(r, buffered) ==
    LET sent == [Method |-> r.Method, Path |-> r.Path,
                 ContentType |-> r.ContentType, Authorization |-> "",
                 Body |-> r.Body]
    IN  /\ callCount' = callCount + 1
        /\ sendCount' = sendCount + 1
        /\ attemptSends' = <<sent>>
        /\ attemptResps' = <<>>
        /\ parseCount' = 0
        /\ inflight' = sent
        /\ req' = [r EXCEPT !.Body = IF r.Body = NilBody THEN NilBody ELSE ""]
        /\ pc' = "send1"

InvokeOperationWithCredentials(r, buffered) ==
    LET restored == IF buffered # NilBody THEN buffered ELSE r.Body
        sent == [Method |-> r.Method, Path |-> r.Path,
                 ContentType |-> r.ContentType,
                 Authorization |-> GenerateAuthHeader(digestAuth, PublicKey,
                                       PrivateKey, r.Method, r.Path),
                 Body |-> restored]
    IN  /\ callCount' = callCount + 1
        /\ sendCount' = sendCount + 1
        /\ attemptSends' = <<sent>>
        /\ attemptResps' = <<>>
        /\ parseCount' = 0
        /\ inflight' = sent
        /\ req' = [r EXCEPT !.Body = IF restored = NilBody THEN NilBody ELSE ""]
        /\ pc' = "send1"

\* Execute calls operation(): the closure restores the body, and
\* executeHTTPRequest buffers it again and hands the request to the
\* transport without credentials
InvokeOperation(r, buffered) ==
    LET restored == IF buffered # NilBody THEN buffered ELSE r.Body
        sent == [Method |-> r.Method, Path |-> r.Path,
                 ContentType |-> r.ContentType, Authorization |-> "",
                 Body |-> restored]
    IN  /\ callCount' = callCount + 1
        /\ sendCount' = sendCount + 1
        /\ attemptSends' = <<sent>>
        /\ attemptResps' = <<>>
        /\ parseCount' = 0
        /\ inflight' = sent
        /\ req' = [r EXCEPT !.Body = IF restored = NilBody THEN NilBody ELSE ""]
        /\ pc' = "send1"

Observe(status) ==
    uniformStatus' = IF uniformStatus \in {0, status} THEN status ELSE -1

(***************************************************************************)
(* Actions.                                                                *)
(***************************************************************************)
\* A resource operation calls doRequestWithRetry(ctx, r): the body is
\* buffered, Execute starts its loop and the first request goes out.
DoRequestWithRetry ==
    /\ UNCHANGED <<goVars, fnVars, authLog>>
    /\ pc \in {"idle", "returned"}
    /\ calls < MaxCalls
    /\ \E r \in Requests, c \in {NoError, ContextCanceled} :
        /\ calls' = calls + 1
        /\ ctxErr' = c
        /\ bodyBytes' = r.Body
        /\ attempt' = 0
        /\ lastErr' = NoError
        /\ finalResp' = NoResponse
        /\ finalErr' = NoError
        /\ delay' = Int64(0)
        /\ waits' = <<>>
        /\ lastOpErr' = NoError
        /\ allRetryable' = TRUE
        /\ uniformStatus' = 0
        /\ cancelledWait' = FALSE
        /\ openBodies' = 0
        /\ IF 0 <= policy.MaxAttempts
           THEN /\ callCount' = 1
                /\ sendCount' = 1
                /\ attemptSends' =
                       <<[Method |-> r.Method, Path |-> r.Path,
                          ContentType |-> r.ContentType,
                          Authorization |-> "", Body |-> r.Body]>>
                /\ attemptResps' = <<>>
                /\ parseCount' = 0
                /\ inflight' = attemptSends'[1]
                /\ req' = [r EXCEPT !.Body = IF r.Body = NilBody
                                             THEN NilBody ELSE ""]
                /\ pc' = "send1"
                /\ execResult' = NoError
                /\ result' = NoResult
           ELSE /\ callCount' = 0
                /\ sendCount' = 0
                /\ attemptSends' = <<>>
                /\ attemptResps' = <<>>
                /\ parseCount' = 0
                /\ inflight' = NoSend
                /\ req' = [r EXCEPT !.Body = IF r.Body = NilBody
                                             THEN NilBody ELSE ""]
                /\ DoRequestReturn(NoError, NoResponse, NoError)
    /\ UNCHANGED <<policy, digestAuth>>

\* The unauthenticated send is answered.
ReceiveFirst ==
    /\ UNCHANGED <<goVars, fnVars, authLog>>
    /\ pc = "send1"
    /\ \/ \E e \in TransportErrors :
            /\ attemptResps' = Append(attemptResps, NoResponse)
            /\ uniformStatus' = -1
            /\ OperationReturns(NoResponse, e)
            /\ UNCHANGED <<digestAuth, parseCount, inflight, sendCount,
                           attemptSends>>
       \/ \E resp \in ServerResponses :
            /\ attemptResps' = Append(attemptResps, resp)
            /\ Observe(resp.StatusCode)
            /\ IF /\ resp.StatusCode = StatusUnauthorized
                  /\ resp.WWWAuthenticate # ""
               THEN \E cn \in CNonces :
                    \E parsed \in {ParseChallenge(digestAuth,
                                                  resp.WWWAuthenticate, cn)} :
                    \E authValue \in {GenerateAuthHeader(parsed.auth,
                                          PublicKey, PrivateKey,
                                          req.Method, req.Path)} :
                    \E newReq \in {[Method |-> req.Method, Path |-> req.Path,
                                    ContentType |-> req.ContentType,
                                    Authorization |-> authValue,
                                    Body |-> inflight.Body]} :
                        /\ digestAuth' = parsed.auth
                        /\ parseCount' = parseCount + 1
                        /\ IF parsed.err # NoError
                           THEN /\ OperationReturns(NoResponse,
                                      WrapError("failed to parse auth challenge: ",
                                                parsed.err))
                                /\ UNCHANGED <<inflight, sendCount,
                                               attemptSends>>
                           ELSE /\ inflight' = newReq
                                /\ sendCount' = sendCount + 1
                                /\ attemptSends' = Append(attemptSends, newReq)
                                /\ pc' = "send2"
                                /\ openBodies' = (openBodies + 1) - 1
                                /\ UNCHANGED <<lastErr, finalResp, finalErr,
                                               delay, execResult, result,
                                               lastOpErr, waits, allRetryable>>
               ELSE /\ OperationReturns(resp, NoError)
                    /\ UNCHANGED <<digestAuth, parseCount, inflight,
                                   sendCount, attemptSends>>
    /\ UNCHANGED <<policy, calls, ctxErr, req, bodyBytes, attempt, callCount,
                   cancelledWait>>

ReceiveSecondRepeatsHandshake ==
    /\ UNCHANGED <<goVars, fnVars, authLog>>
    /\ pc = "send2"
    /\ \/ \E e \in TransportErrors :
            /\ attemptResps' = Append(attemptResps, NoResponse)
            /\ uniformStatus' = -1
            /\ OperationReturns(NoResponse, e)
            /\ UNCHANGED <<digestAuth, parseCount, inflight, sendCount,
                           attemptSends>>
       \/ \E resp \in ServerResponses :
            /\ attemptResps' = Append(attemptResps, resp)
            /\ Observe(resp.StatusCode)
            /\ IF /\ resp.StatusCode = StatusUnauthorized
                  /\ resp.WWWAuthenticate # ""
                  /\ ParseChallenge(digestAuth, resp.WWWAuthenticate,
                                    digestAuth.cnonce).err = NoError
               THEN \E parsed \in {ParseChallenge(digestAuth,
                           resp.WWWAuthenticate, digestAuth.cnonce)} :
                    \E authValue \in {GenerateAuthHeader(parsed.auth,
                           PublicKey, PrivateKey, req.Method, req.Path)} :
                    /\ digestAuth' = parsed.auth
                    /\ parseCount' = parseCount + 1
                    /\ inflight' = [inflight EXCEPT !.Authorization = authValue]
                    /\ sendCount' = sendCount + 1
                    /\ attemptSends' = Append(attemptSends, inflight')
                    /\ openBodies' = (openBodies + 1) - 1
                    /\ UNCHANGED <<pc, lastErr, finalResp, finalErr, delay,
                                   execResult, result, lastOpErr, waits,
                                   allRetryable>>
               ELSE /\ OperationReturns(resp, NoError)
                    /\ UNCHANGED <<digestAuth, parseCount, inflight,
                                   sendCount, attemptSends>>
    /\ UNCHANGED <<policy, calls, ctxErr, req, bodyBytes, attempt, callCount,
                   cancelledWait>>

\* The authenticated resend is answered; whatever comes back is the result
\* of executeHTTPRequest.
ReceiveSecond ==
    /\ UNCHANGED <<goVars, fnVars, authLog>>
    /\ pc = "send2"
    /\ \/ \E e \in TransportErrors :
            /\ attemptResps' = Append(attemptResps, NoResponse)
            /\ uniformStatus' = -1
            /\ OperationReturns(NoResponse, e)
       \/ \E resp \in ServerResponses :
            /\ attemptResps' = Append(attemptResps, resp)
            /\ Observe(resp.StatusCode)
            /\ OperationReturns(resp, NoError)
    /\ UNCHANGED <<policy, digestAuth, calls, ctxErr, req, bodyBytes, attempt,
                   inflight, callCount, sendCount, attemptSends, parseCount,
                   cancelledWait>>

TimerElapsedResetsAuth ==
    /\ UNCHANGED <<goVars, fnVars, authLog>>
    /\ pc = "waiting"
    /\ ctxErr = NoError \/ ~Less64(Int64(0), delay)
    /\ attempt' = attempt + 1
    /\ digestAuth' = NewDigestAuth
    /\ IF attempt' <= policy.MaxAttempts
       THEN /\ InvokeOperation(req, bodyBytes)
            /\ UNCHANGED <<execResult, result>>
       ELSE /\ DoRequestReturn(lastErr, finalResp, finalErr)
            /\ UNCHANGED <<req, inflight, callCount, sendCount, attemptSends,
                           attemptResps, parseCount>>
    /\ UNCHANGED <<policy, calls, ctxErr, bodyBytes, lastErr,
                   finalResp, finalErr, delay, lastOpErr, waits, allRetryable,
                   uniformStatus, cancelledWait, openBodies>>

TimerElapsedSameAttempt ==
    /\ UNCHANGED <<goVars, fnVars, authLog>>
    /\ pc = "waiting"
    /\ ctxErr = NoError \/ ~Less64(Int64(0), delay)
    /\ attempt' = attempt
    /\ IF attempt' <= policy.MaxAttempts
       THEN /\ InvokeOperation(req, bodyBytes)
            /\ UNCHANGED <<execResult, result>>
       ELSE /\ DoRequestReturn(lastErr, finalResp, finalErr)
            /\ UNCHANGED <<req, inflight, callCount, sendCount, attemptSends,
                           attemptResps, parseCount>>
    /\ UNCHANGED <<policy, digestAuth, calls, ctxErr, bodyBytes, lastErr,
                   finalResp, finalErr, delay, lastOpErr, waits, allRetryable,
                   uniformStatus, cancelledWait, openBodies>>

\* The select in Execute takes the timer: the loop goes on to the next
\* attempt.  A context that is done wins over a timer that has not fired.
TimerElapsed ==
    /\ UNCHANGED <<goVars, fnVars, authLog>>
    /\ pc = "waiting"
    /\ ctxErr = NoError \/ ~Less64(Int64(0), delay)
    /\ attempt' = attempt + 1
    /\ IF attempt' <= policy.MaxAttempts
       THEN /\ InvokeOperation(req, bodyBytes)
            /\ UNCHANGED <<execResult, result>>
       ELSE /\ DoRequestReturn(lastErr, finalResp, finalErr)
            /\ UNCHANGED <<req, inflight, callCount, sendCount, attemptSends,
                           attemptResps, parseCount>>
    /\ UNCHANGED <<policy, digestAuth, calls, ctxErr, bodyBytes, lastErr,
                   finalResp, finalErr, delay, lastOpErr, waits, allRetryable,
                   uniformStatus, cancelledWait, openBodies>>

WaitCancelledReturnsLastErr ==
    /\ UNCHANGED <<goVars, fnVars, authLog>>
    /\ pc = "waiting"
    /\ ctxErr # NoError
    /\ cancelledWait' = TRUE
    /\ DoRequestReturn(lastErr, finalResp, finalErr)
    /\ UNCHANGED <<policy, digestAuth, calls, ctxErr, req, bodyBytes, attempt,
                   lastErr, finalResp, finalErr, delay, inflight, callCount,
                   sendCount, attemptSends, attemptResps, parseCount,
                   lastOpErr, waits, allRetryable, uniformStatus, openBodies>>

\* The select in Execute takes ctx.Done(): Execute returns ctx.Err().
WaitCancelled ==
    /\ UNCHANGED <<goVars, fnVars, authLog>>
    /\ pc = "waiting"
    /\ ctxErr # NoError
    /\ cancelledWait' = TRUE
    /\ DoRequestReturn(ctxErr, finalResp, finalErr)
    /\ UNCHANGED <<policy, digestAuth, calls, ctxErr, req, bodyBytes, attempt,
                   lastErr, finalResp, finalErr, delay, inflight, callCount,
                   sendCount, attemptSends, attemptResps, parseCount,
                   lastOpErr, waits, allRetryable, uniformStatus, openBodies>>

\* The caller cancels the context, or its deadline passes.
Cancel ==
    /\ UNCHANGED <<goVars, fnVars, authLog>>
    /\ pc \in {"send1", "send2", "waiting"}
    /\ ctxErr = NoError
    /\ ctxErr' = ContextCanceled
    /\ UNCHANGED <<policy, digestAuth, calls, pc, req, bodyBytes, attempt,
                   lastErr, finalResp, finalErr, delay, inflight, execResult,
                   result, callCount, sendCount, attemptSends, attemptResps,
                   parseCount, lastOpErr, waits, allRetryable, uniformStatus,
                   cancelledWait, openBodies>>

Next ==
    \/ DoRequestWithRetry
    \/ ReceiveFirst
    \/ ReceiveSecond
    \/ TimerElapsed
    \/ WaitCancelled
    \/ Cancel

Spec == Init /\ [][Next]_vars

(***************************************************************************)
(* Execute on its own.  Execute takes the operation as a func() error and  *)
(* knows nothing of what it does, so here an invocation is one step that   *)
(* returns what executeHTTPRequest can return, a response or an error,     *)
(* without following the sends inside it.  The scheduling Execute relies   *)
(* on is stated as fairness: every invocation of the operation returns     *)
(* (http.Client.Timeout is 30 s), and the select of a backoff wait is left *)
(* through the timer or through ctx.Done().  Nothing obliges the caller to *)
(* cancel or to start another call.                                        *)
(***************************************************************************)
\* the errors executeHTTPRequest returns without a response
OperationFailures ==
    TransportErrors
    \cup {WrapError("failed to parse auth challenge: ",
                    PlainError("missing nonce in digest challenge"))}

\* operation() returns: executeHTTPRequest came back with a response or an
\* error, and the closure classified it
OperationCompletes ==
    /\ UNCHANGED <<goVars, fnVars, authLog>>
    /\ pc = "send1"
    /\ \/ \E e \in OperationFailures :
            /\ attemptResps' = Append(attemptResps, NoResponse)
            /\ uniformStatus' = -1
            /\ OperationReturns(NoResponse, e)
       \/ \E resp \in ServerResponses :
            /\ attemptResps' = Append(attemptResps, resp)
            /\ Observe(resp.StatusCode)
            /\ OperationReturns(resp, NoError)
    /\ UNCHANGED <<policy, digestAuth, calls, ctxErr, req, bodyBytes, attempt,
                   inflight, callCount, sendCount, attemptSends, parseCount,
                   cancelledWait>>

ExecuteNext ==
    \/ DoRequestWithRetry
    \/ OperationCompletes
    \/ TimerElapsed
    \/ WaitCancelled
    \/ Cancel

Fairness ==
    /\ WF_vars(OperationCompletes)
    /\ WF_vars(TimerElapsed \/ WaitCancelled)

LiveSpec == Init /\ [][ExecuteNext]_vars /\ Fairness

\* RetryPolicy.MaxAttempts is an exported int and NewRetryExecutor takes
\* the policy as it is: a negative value is a policy too
ExecuteInit ==
    /\ policy \in {[NewRetryPolicy EXCEPT !.MaxAttempts = n] :
                      n \in (-1)..MaxPolicyAttempts}
    /\ NewClient
    /\ NoGoroutine
    /\ NoFunctionCall
    /\ NoAuthCall

ExecuteSpec == ExecuteInit /\ [][ExecuteNext]_vars

\* what the resource operation returns to its caller once doRequestWithRetry
\* has returned res: the tail of GetPrivateEndpointService, which the other
\* resource operations share
ResourceOperationReturn(res) ==
    IF res.err # NoError
    THEN [value |-> "nil",
          err |-> WrapError("failed to execute request: ", res.err)]
    ELSE IF res.resp.StatusCode # StatusOK
    THEN [value |-> "nil",
          err |-> PlainError("API request failed with status "
                             \o ToString(res.resp.StatusCode))]
    ELSE IF ~res.resp.Body.decodes
    THEN [value |-> "nil",
          err |-> PlainError("failed to decode response: invalid JSON")]
    ELSE [value |-> "decoded", err |-> NoError]

(***************************************************************************)
(* Two goroutines inside executeHTTPRequest on one Client.  Client.digestAuth*)
(* is shared and nothing serialises access to it, so the field assignments *)
(* of ParseChallenge and the reads of GenerateAuthHeader interleave.       *)
(***************************************************************************)
\* the request both goroutines send
ListRequest == CHOOSE r \in Requests : r.Method = "GET"

\* the challenges of two 401 answers, each with a nonce of its own
FreshChallenges ==
    {"Digest realm=\"tidbcloud\", nonce=\"dcd98b\", qop=\"auth\", opaque=\"5ccc\", algorithm=\"MD5\"",
     "Digest realm=\"tidbcloud\", nonce=\"7f3a21\", qop=\"auth\", opaque=\"9e0d\", algorithm=\"MD5\""}

\* the fields ParseChallenge assigns from pairs, in the order of its
\* statements, and the place after each
ChallengeFields == <<"realm", "nonce", "qop", "opaque", "algorithm">>

AfterField(f) ==
    CASE f = "realm" -> "nonce"
      [] f = "nonce" -> "qop"
      [] f = "qop" -> "opaque"
      [] f = "opaque" -> "algorithm"
      [] f = "algorithm" -> "default"

SetField(d, f, value) ==
    CASE f = "realm" -> [d EXCEPT !.realm = value]
      [] f = "nonce" -> [d EXCEPT !.nonce = value]
      [] f = "qop" -> [d EXCEPT !.qop = value]
      [] f = "opaque" -> [d EXCEPT !.opaque = value]
      [] f = "algorithm" -> [d EXCEPT !.algorithm = value]

\* httpClient.Do(req) of the unauthenticated request
GoSend(g) ==
    /\ goPc[g] = "idle"
    /\ goPc' = [goPc EXCEPT ![g] = "send1"]
    /\ UNCHANGED <<callVars, digestAuth, goAuthHeader, goPairs, goCnonce,
                   goAuthValue, fnVars, authLog>>

\* the answer is 401 with a challenge: ParseChallenge starts and computes
\* pairs
GoReceiveChallenge(g) ==
    /\ goPc[g] = "send1"
    /\ \E ch \in FreshChallenges :
        /\ goAuthHeader' = [goAuthHeader EXCEPT ![g] = ch]
        /\ goPairs' = [goPairs EXCEPT ![g] =
                          parseKeyValuePairs(TrimPrefix(ch, "Digest "))]
    /\ goPc' = [goPc EXCEPT ![g] = "realm"]
    /\ UNCHANGED <<callVars, digestAuth, goCnonce, goAuthValue, fnVars,
                   authLog>>

\* one of the assignments d.realm = pairs["realm"] ... d.algorithm = ...
GoAssignField(g) ==
    /\ \E i \in 1..Len(ChallengeFields) : goPc[g] = ChallengeFields[i]
    /\ digestAuth' = SetField(digestAuth, goPc[g], MapGet(goPairs[g], goPc[g]))
    /\ goPc' = [goPc EXCEPT ![g] = AfterField(goPc[g])]
    /\ UNCHANGED <<callVars, goAuthHeader, goPairs, goCnonce, goAuthValue,
                   fnVars, authLog>>

\* if d.algorithm == "" { d.algorithm = "MD5" }
GoDefaultAlgorithm(g) ==
    /\ goPc[g] = "default"
    /\ digestAuth' = IF digestAuth.algorithm = ""
                      THEN [digestAuth EXCEPT !.algorithm = "MD5"]
                      ELSE digestAuth
    /\ goPc' = [goPc EXCEPT ![g] = "validate"]
    /\ UNCHANGED <<callVars, goAuthHeader, goPairs, goCnonce, goAuthValue,
                   fnVars, authLog>>

\* the checks of d.realm and d.nonce
GoValidate(g) ==
    /\ goPc[g] = "validate"
    /\ goPc' = [goPc EXCEPT ![g] =
                    IF digestAuth.realm = "" \/ digestAuth.nonce = ""
                    THEN "failed" ELSE "cnonce"]
    /\ UNCHANGED <<callVars, digestAuth, goAuthHeader, goPairs, goCnonce,
                   goAuthValue, fnVars, authLog>>

\* d.cnonce = generateCnonce()
GoCnonce(g) ==
    /\ goPc[g] = "cnonce"
    /\ \E cn \in CNonces :
        /\ goCnonce' = [goCnonce EXCEPT ![g] = cn]
        /\ digestAuth' = [digestAuth EXCEPT !.cnonce = cn]
    /\ goPc' = [goPc EXCEPT ![g] = "generate"]
    /\ UNCHANGED <<callVars, goAuthHeader, goPairs, goAuthValue, fnVars,
                   authLog>>

\* authValue := c.digestAuth.GenerateAuthHeader(...), and the resend
GoGenerate(g) ==
    /\ goPc[g] = "generate"
    /\ \E header \in {GenerateAuthHeader(digestAuth, PublicKey, PrivateKey,
                           ListRequest.Method, ListRequest.Path)} :
        goAuthValue' = [goAuthValue EXCEPT ![g] = header]
    /\ goPc' = [goPc EXCEPT ![g] = "send2"]
    /\ UNCHANGED <<callVars, digestAuth, goAuthHeader, goPairs, goCnonce,
                   fnVars, authLog>>

ConcurrentNext ==
    \E g \in Goroutines :
        \/ GoSend(g)
        \/ GoReceiveChallenge(g)
        \/ GoAssignField(g)
        \/ GoDefaultAlgorithm(g)
        \/ GoValidate(g)
        \/ GoCnonce(g)
        \/ GoGenerate(g)

ConcurrentInit ==
    /\ policy = NewRetryPolicy
    /\ NewClient
    /\ NoGoroutine
    /\ NoFunctionCall
    /\ NoAuthCall

ConcurrentSpec == ConcurrentInit /\ [][ConcurrentNext]_vars

(***************************************************************************)
(* Direct calls of the exported functions and methods: the retry policy,   *)
(* the predicates of APIError and the failure classifier.  The arguments   *)
(* of one call are drawn at the start, and the call returns once.          *)
(***************************************************************************)
\* the policies a caller builds: NewRetryPolicy() with MaxAttempts set, and
\* one with shorter delays
Policies ==
    {[NewRetryPolicy EXCEPT !.MaxAttempts = n] : n \in 0..MaxPolicyAttempts}
    \cup {[MaxAttempts |-> 5,
           BaseDelay |-> Mul64(Int64(100), Int64(1000000)),
           MaxDelay |-> Mul64(Int64(5), Second)]}

StatusCodes == 0..MaxStatusCode

\* errors.APIError values of every status, with and without the other fields
APIErrors ==
    {APIError(st, code, "", details) :
        st \in StatusCodes,
        code \in {0, 49900001, RateLimitCode},
        details \in {<<>>, <<[reason |-> "key"]>>}}

\* the errors an operation hands to ShouldRetry
OperationErrors ==
    {APIError(st, code, "", <<>>) :
        st \in {StatusOK, StatusBadRequest, StatusUnauthorized,
                StatusForbidden, StatusNotFound, 408, StatusTooManyRequests,
                StatusInternalServerError, 501, StatusBadGateway,
                StatusServiceUnavailable, StatusGatewayTimeout},
        code \in {0, RateLimitCode}}
    \cup TransportErrors
    \cup {PlainError("network error"),
          WrapError("failed to parse auth challenge: ",
                    PlainError("missing nonce in digest challenge")),
          WrapError("failed to execute request: ",
                    APIError(StatusServiceUnavailable, 0, "", <<>>))}

\* the responses parseAPIError is given
ClassifiedResponses ==
    {Response(st, "", rh, b) :
        st \in ErrorStatuses \cup {StatusUnauthorized, StatusTooManyRequests},
        rh \in ResetHeaders \cup SignedResetHeaders,
        b \in {UndecodableBody, RateLimitBody, KeyNotFoundBody}}

\* a parameter of a challenge: absent, or present with a value that the
\* server wrote between double quotes or as a bare token
NoParam == [present |-> FALSE, quoted |-> FALSE, value |-> ""]

Param(value, quoted) == [present |-> TRUE, quoted |-> quoted, value |-> value]

RenderParam(key, p) ==
    IF p.quoted THEN key \o "=\"" \o p.value \o "\"" ELSE key \o "=" \o p.value

RECURSIVE Join(_, _)
Join(parts, sep) ==
    IF parts = <<>> THEN ""
    ELSE IF Len(parts) = 1 THEN parts[1]
    ELSE parts[1] \o sep \o Join(Tail(parts), sep)

\* the WWW-Authenticate header of the challenge ch: the scheme, then the
\* parameters that are present, in the order of ChallengeFields or in the
\* opposite order
RenderChallenge(ch) ==
    LET keys == IF ch.reversed
                THEN [i \in 1..Len(ChallengeFields) |->
                         ChallengeFields[Len(ChallengeFields) + 1 - i]]
                ELSE ChallengeFields
        present == SelectSeq(keys, LAMBDA k : ch[k].present)
    IN  ch.scheme \o Join([i \in 1..Len(present) |->
                              RenderParam(present[i], ch[present[i]])],
                          ch.sep)

\* challenges with every parameter absent, quoted or bare; realm and nonce
\* also with an empty quoted value
DigestChallenges ==
    [scheme : {"Digest "},
     realm : {NoParam, Param("", TRUE), Param("tidbcloud", TRUE),
              Param("tidb", FALSE), Param("TiDB Cloud, prod", TRUE)},
     nonce : {NoParam, Param("", TRUE), Param("dcd98b", TRUE),
              Param("0a4f", FALSE)},
     qop : {NoParam, Param("auth", TRUE), Param("auth", FALSE),
            Param("auth,auth-int", TRUE)},
     opaque : {NoParam, Param("5ccc", TRUE), Param("5ccc", FALSE)},
     algorithm : {NoParam, Param("MD5", TRUE), Param("MD5", FALSE),
                  Param("MD5-sess", FALSE)},
     sep : {", ", ","},
     reversed : BOOLEAN]

\* headers of another scheme, of no scheme, and the empty header
OtherSchemeChallenges ==
    [scheme : {"Basic ", "digest ", "Digest", ""},
     realm : {NoParam, Param("tidbcloud", TRUE)},
     nonce : {NoParam, Param("dcd98b", TRUE)},
     qop : {NoParam},
     opaque : {NoParam},
     algorithm : {NoParam},
     sep : {", "},
     reversed : {FALSE}]

\* the DigestAuth a client holds when a challenge arrives: new, or filled by
\* the challenge of an earlier exchange
Receivers ==
    {NewDigestAuth,
     ParseChallenge(NewDigestAuth,
         "Digest realm=\"old\", nonce=\"9e41\", qop=\"auth\", opaque=\"77aa\", algorithm=\"MD5\"",
         "b3d0").auth}

\* the challenges a DigestAuth is filled from before GenerateAuthHeader is
\* called: every combination of parameters, in one rendering
PlainChallenges == {ch \in DigestChallenges : ch.sep = ", " /\ ~ch.reversed}

\* one call of GenerateAuthHeader on the DigestAuth that ParseChallenge of
\* ch leaves behind, whether it succeeded or not (parseErr)
GenerateAuthHeaderCall(parsed, ch, r) ==
    [fn |-> "GenerateAuthHeader", challenge |-> ch,
     d |-> parsed.auth, parseErr |-> parsed.err,
     username |-> PublicKey, password |-> PrivateKey,
     method |-> r.Method, uri |-> r.Path]

GenerateAuthHeaderCalls ==
    {GenerateAuthHeaderCall(
         ParseChallenge(x[1], RenderChallenge(x[2]), x[3]), x[2], x[4]) :
        x \in Receivers \X PlainChallenges \X CNonces \X Requests}

\* A request object (a *models.Openapi...Req) is written as the JSON text
\* json.Marshal makes of it (body); NilReq is the nil pointer.
NilReq == "nil"

\* The resource operations: the identifiers each one requires (project,
\* cluster, and resource: "backup", "restore", "endpoint" or "" for none),
\* whether it takes a request object, and the method and collection of the
\* URL it builds.
Operation(name, method, project, cluster, resource, takesReq, collection) ==
    [name |-> name, method |-> method, project |-> project,
     cluster |-> cluster, resource |-> resource, takesReq |-> takesReq,
     collection |-> collection]

ResourceOperations ==
    {Operation("CreateProject", "POST", FALSE, FALSE, "", TRUE, ""),
     Operation("ListBackups", "GET", TRUE, TRUE, "", FALSE, "/backups"),
     Operation("GetBackup", "GET", TRUE, TRUE, "backup", FALSE, "/backups"),
     Operation("CreateBackup", "POST", TRUE, TRUE, "", TRUE, "/backups"),
     Operation("DeleteBackup", "DELETE", TRUE, TRUE, "backup", FALSE,
               "/backups"),
     Operation("ListRestores", "GET", TRUE, FALSE, "", FALSE, "/restores"),
     Operation("GetRestore", "GET", TRUE, FALSE, "restore", FALSE,
               "/restores"),
     Operation("CreateRestore", "POST", TRUE, FALSE, "", TRUE, "/restores"),
     Operation("GetPrivateEndpointService", "GET", TRUE, TRUE, "", FALSE,
               "/private_endpoint_service"),
     Operation("CreatePrivateEndpointService", "POST", TRUE, TRUE, "", FALSE,
               "/private_endpoint_service"),
     Operation("ListPrivateEndpoints", "GET", TRUE, TRUE, "", FALSE,
               "/private_endpoints"),
     Operation("CreatePrivateEndpoint", "POST", TRUE, TRUE, "", TRUE,
               "/private_endpoints"),
     Operation("DeletePrivateEndpoint", "DELETE", TRUE, TRUE, "endpoint",
               FALSE, "/private_endpoints"),
     Operation("ListPrivateEndpointsOfProject", "GET", TRUE, FALSE, "", FALSE,
               "/private_endpoints")}

\* the URL path a resource operation formats from its identifiers
OperationPath(op, projectID, clusterID, resourceID) ==
    "/api/v1beta/projects"
        \o (IF op.project THEN "/" \o projectID ELSE "")
        \o (IF op.cluster THEN "/clusters/" \o clusterID ELSE "")
        \o op.collection
        \o (IF op.resource # "" THEN "/" \o resourceID ELSE "")

\* the request a resource operation builds with http.NewRequest: a POST
\* carries the marshalled request object, or {} when there is none
BuildRequest(op, projectID, clusterID, resourceID, body) ==
    [Method |-> op.method,
     Path |-> OperationPath(op, projectID, clusterID, resourceID),
     ContentType |-> IF op.method = "POST" THEN "application/json" ELSE "",
     Body |-> IF op.method # "POST" THEN NilBody
              ELSE IF ~op.takesReq THEN "{}"
              ELSE IF body = NilReq THEN "null" ELSE body]

PrepareRequestNilReqPasses(op, projectID, clusterID, resourceID, body) ==
    IF op.project /\ projectID = ""
    THEN [request |-> NoRequest, err |-> PlainError("project ID is required")]
    ELSE IF op.cluster /\ clusterID = ""
    THEN [request |-> NoRequest, err |-> PlainError("cluster ID is required")]
    ELSE IF op.resource # "" /\ resourceID = ""
    THEN [request |-> NoRequest,
          err |-> PlainError(op.resource \o " ID is required")]
    ELSE [request |-> BuildRequest(op, projectID, clusterID, resourceID, body),
          err |-> NoError]

\* The head of every resource operation, up to the call of doRequest or
\* doRequestWithRetry: the arguments are validated in the order project,
\* cluster, resource, request; the first failure returns its error, and
\* only otherwise is a request built and handed over (request).  NoRequest
\* means the operation returned before http.NewRequest.
PrepareRequest(op, projectID, clusterID, resourceID, body) ==
    IF op.project /\ projectID = ""
    THEN [request |-> NoRequest, err |-> PlainError("project ID is required")]
    ELSE IF op.cluster /\ clusterID = ""
    THEN [request |-> NoRequest, err |-> PlainError("cluster ID is required")]
    ELSE IF op.resource # "" /\ resourceID = ""
    THEN [request |-> NoRequest,
          err |-> PlainError(op.resource \o " ID is required")]
    ELSE IF op.takesReq /\ body = NilReq
    THEN [request |-> NoRequest, err |-> PlainError("request is required")]
    ELSE [request |-> BuildRequest(op, projectID, clusterID, resourceID, body),
          err |-> NoError]

\* the calls of resource operations: every identifier given or empty, the
\* request object given or nil
ResourceOperationCalls ==
    {[fn |-> "ResourceOperation", op |-> op, projectID |-> p,
      clusterID |-> c, resourceID |-> r, body |-> q] :
        op \in ResourceOperations, p \in {"", "p"}, c \in {"", "c"},
        r \in {"", "r"}, q \in {NilReq, "{\"endpoint_name\":\"e\"}"}}

FunctionCalls ==
    {[fn |-> "ShouldRetry", policy |-> p, err |-> e, attempt |-> a] :
        p \in Policies, e \in OperationErrors,
        a \in (-1)..(MaxPolicyAttempts + 3)}
    \cup {[fn |-> "CalculateDelay", policy |-> p, attempt |-> n, conv |-> c] :
        p \in Policies, n \in 1..MaxAttemptNumber,
        c \in OutOfRangeConversions}
    \cup {[fn |-> "IsRetryable", err |-> e] : e \in APIErrors}
    \cup {[fn |-> "IsRateLimitError", err |-> e] : e \in APIErrors}
    \cup {[fn |-> "parseAPIError", resp |-> r] : r \in ClassifiedResponses}
    \cup {[fn |-> "ParseChallenge", d |-> d, challenge |-> ch, cnonce |-> cn] :
        d \in Receivers, ch \in DigestChallenges \cup OtherSchemeChallenges,
        cn \in CNonces}
    \cup GenerateAuthHeaderCalls
    \cup {[fn |-> "NewClient", publicKey |-> pub, privateKey |-> priv] :
        pub \in {"", PublicKey, "test_public_key"},
        priv \in {"", PrivateKey, "test_private_key"}}
    \cup ResourceOperationCalls

FunctionReturns(value) ==
    /\ fnReturn.fn = ""
    /\ fnReturn' = [fn |-> fnCall.fn, value |-> value]
    /\ UNCHANGED <<callVars, digestAuth, goVars, fnCall, authLog>>

CallShouldRetry ==
    /\ fnCall.fn = "ShouldRetry"
    /\ FunctionReturns(ShouldRetry(fnCall.policy, fnCall.err, fnCall.attempt))

CallCalculateDelay ==
    /\ fnCall.fn = "CalculateDelay"
    /\ FunctionReturns(CalculateDelay(fnCall.policy, fnCall.attempt,
                                      fnCall.conv))

CallIsRetryable ==
    /\ fnCall.fn = "IsRetryable"
    /\ FunctionReturns(IsRetryable(fnCall.err))

CallIsRateLimitError ==
    /\ fnCall.fn = "IsRateLimitError"
    /\ FunctionReturns(IsRateLimitError(fnCall.err))

CallParseAPIError ==
    /\ fnCall.fn = "parseAPIError"
    /\ FunctionReturns(parseAPIError(fnCall.resp))

CallParseChallenge ==
    /\ fnCall.fn = "ParseChallenge"
    /\ FunctionReturns(ParseChallenge(fnCall.d,
                                      RenderChallenge(fnCall.challenge),
                                      fnCall.cnonce))

CallGenerateAuthHeader ==
    /\ fnCall.fn = "GenerateAuthHeader"
    /\ FunctionReturns(GenerateAuthHeader(fnCall.d, fnCall.username,
                                          fnCall.password, fnCall.method,
                                          fnCall.uri))

CallNewClient ==
    /\ fnCall.fn = "NewClient"
    /\ FunctionReturns(NewClientOf(fnCall.publicKey, fnCall.privateKey))

CallResourceOperation ==
    /\ fnCall.fn = "ResourceOperation"
    /\ FunctionReturns(PrepareRequest(fnCall.op, fnCall.projectID,
                                      fnCall.clusterID, fnCall.resourceID,
                                      fnCall.body))

FunctionNext ==
    \/ CallShouldRetry
    \/ CallCalculateDelay
    \/ CallIsRetryable
    \/ CallIsRateLimitError
    \/ CallParseAPIError
    \/ CallParseChallenge
    \/ CallGenerateAuthHeader
    \/ CallNewClient
    \/ CallResourceOperation

FunctionInit ==
    /\ policy = NewRetryPolicy
    /\ NewClient
    /\ NoGoroutine
    /\ fnCall \in FunctionCalls
    /\ fnReturn = NotReturned
    /\ NoAuthCall

FunctionSpec == FunctionInit /\ [][FunctionNext]_vars

(***************************************************************************)
(* One DigestAuth and a caller that makes any sequence of ParseChallenge   *)
(* and GenerateAuthHeader calls on it.                                     *)
(***************************************************************************)
\* the headers ParseChallenge is given: those of the 401 answers, and the
\* challenge without a realm of TestDigestAuth_ParseChallenge
AuthChallenges == Challenges \cup {"Digest nonce=\"test\""}

\* the entry of authLog for one call
AuthCall(fn, args, before, after, err, header) ==
    [fn |-> fn, args |-> args, before |-> before, after |-> after,
     err |-> err, header |-> header]

\* d.ParseChallenge(authHeader)
AuthParseChallenge ==
    /\ Len(authLog) < MaxAuthCalls
    /\ \E h \in AuthChallenges, cn \in CNonces :
       \E parsed \in {ParseChallenge(digestAuth, h, cn)} :
        /\ digestAuth' = parsed.auth
        /\ authLog' = Append(authLog,
               AuthCall("ParseChallenge", <<h>>, digestAuth, parsed.auth,
                        parsed.err, ""))
    /\ UNCHANGED <<callVars, goVars, fnVars>>

AuthGenerateAuthHeaderCountingNonce ==
    /\ Len(authLog) < MaxAuthCalls
    /\ \E r \in Requests :
       \E header \in {GenerateAuthHeader(digestAuth, PublicKey, PrivateKey,
                                         r.Method, r.Path)} :
        /\ digestAuth' = [digestAuth EXCEPT !.nc = digestAuth.nc + 1]
        /\ authLog' = Append(authLog,
               AuthCall("GenerateAuthHeader",
                        <<PublicKey, PrivateKey, r.Method, r.Path>>,
                        digestAuth, digestAuth', NoError, header))
    /\ UNCHANGED <<callVars, goVars, fnVars>>

\* d.GenerateAuthHeader(username, password, method, uri)
AuthGenerateAuthHeader ==
    /\ Len(authLog) < MaxAuthCalls
    /\ \E r \in Requests :
       \E header \in {GenerateAuthHeader(digestAuth, PublicKey, PrivateKey,
                                         r.Method, r.Path)} :
        /\ digestAuth' = digestAuth
        /\ authLog' = Append(authLog,
               AuthCall("GenerateAuthHeader",
                        <<PublicKey, PrivateKey, r.Method, r.Path>>,
                        digestAuth, digestAuth', NoError, header))
    /\ UNCHANGED <<callVars, goVars, fnVars>>

AuthNext ==
    \/ AuthParseChallenge
    \/ AuthGenerateAuthHeader

AuthInit ==
    /\ policy = NewRetryPolicy
    /\ NewClient
    /\ NoGoroutine
    /\ NoFunctionCall
    /\ NoAuthCall

AuthSpec == AuthInit /\ [][AuthNext]_vars

(***************************************************************************)
(* Properties.                                                             *)
(***************************************************************************)
Returned == pc = "returned"

\* the fields of a credential header, read back the way a server reads them
HeaderField(header, key) ==
    MapGet(parseKeyValuePairs(TrimPrefix(header, "Digest ")), key)

C2_NonRetryableOnce ==
    /\ (/\ callCount = 1
        /\ IsAPIError(lastOpErr)
        /\ ~IsRetryable(lastOpErr)) =>
          /\ Returned
          /\ waits = <<>>
          /\ execResult = lastOpErr
          /\ result = [resp |-> NoResponse, err |-> lastOpErr]
    /\ uniformStatus = StatusBadRequest =>
          /\ Returned
          /\ callCount = 1
          /\ sendCount = 1
          /\ IsAPIError(result.err)
          /\ result.err.StatusCode = StatusBadRequest
          /\ ~IsRetryable(result.err)

C2_Witness ==
    /\ Returned
    /\ policy = NewRetryPolicy
    /\ uniformStatus = StatusBadRequest
    /\ callCount = 1
    /\ waits = <<>>
    /\ result.err.StatusCode = StatusBadRequest

\* C3: with the default policy a call that keeps failing with a retryable
\* error makes 3 attempts in total.
C3_ThreeAttemptsInTotal ==
    (/\ Returned
     /\ policy = NewRetryPolicy
     /\ callCount >= 1
     /\ allRetryable
     /\ ctxErr = NoError) => callCount = 3

\* C4: in a backoff wait whose delay has not elapsed, a context that is
\* done makes Execute return ctx.Err() without another invocation of the
\* operation or another send.
C4_CancelDuringWait ==
    [][(pc = "waiting" /\ ctxErr # NoError /\ Less64(Int64(0), delay)) =>
          /\ pc' = "returned"
          /\ execResult' = ctxErr
          /\ cancelledWait'
          /\ callCount' = callCount
          /\ sendCount' = sendCount]_vars

C4_Witness ==
    /\ Returned
    /\ cancelledWait
    /\ execResult = ContextCanceled
    /\ callCount >= 1
    /\ callCount <= policy.MaxAttempts

\* C5: a logical call cancelled during a backoff wait returns the context's
\* cancellation error to the caller, not the error of the failed attempt.
C5_CallerGetsCancellation ==
    cancelledWait => result.err = ctxErr

\* C6: an error Execute returns other than through cancellation is the
\* error the latest invocation of the operation returned.
C6_LastErrorReturned ==
    (Returned /\ execResult # NoError /\ ~cancelledWait) =>
        /\ execResult = lastOpErr
        /\ lastErr = lastOpErr

C6_Witness ==
    /\ Returned
    /\ ~cancelledWait
    /\ callCount = 3
    /\ IsAPIError(execResult)
    /\ execResult.StatusCode = StatusNotFound
    /\ execResult = lastOpErr

\* C7: once an invocation of the operation succeeds, Execute has returned
\* nil: the operation was invoked once more than there were backoff waits,
\* at most MaxAttempts + 1 times, and the caller holds the response.
C7_SuccessReturnsNil ==
    /\ finalResp # NoResponse =>
          /\ Returned
          /\ execResult = NoError
          /\ lastOpErr = NoError
          /\ callCount = Len(waits) + 1
          /\ callCount <= policy.MaxAttempts + 1
          /\ result = [resp |-> finalResp, err |-> NoError]
    /\ (Returned /\ execResult = NoError) => finalResp # NoResponse

C7_Witness ==
    /\ Returned
    /\ execResult = NoError
    /\ finalResp.StatusCode = StatusOK
    /\ callCount = policy.MaxAttempts + 1
    /\ callCount = 4

\* C8: when the unauthenticated send is answered 401 with a valid challenge
\* and the authenticated send 200, the attempt made exactly these two sends,
\* the second with an Authorization header that starts with "Digest ", has
\* the request's path as uri and a non-empty response; the call returns the
\* 200 response without error, and no backoff wait follows the attempt.
C8_ChallengeThenSuccess ==
    (/\ Len(attemptResps) = 2
     /\ attemptResps[1].StatusCode = StatusUnauthorized
     /\ attemptResps[2].StatusCode = StatusOK) =>
        /\ Len(attemptSends) = 2
        /\ attemptSends[1].Authorization = ""
        /\ HasPrefix(attemptSends[2].Authorization, "Digest ")
        /\ HeaderField(attemptSends[2].Authorization, "uri") = req.Path
        /\ HeaderField(attemptSends[2].Authorization, "response") # ""
        /\ attemptSends[2].Method = attemptSends[1].Method
        /\ attemptSends[2].Path = req.Path
        /\ Returned
        /\ result = [resp |-> attemptResps[2], err |-> NoError]
        /\ Len(waits) = callCount - 1
        /\ callCount = 1 => sendCount = 2

C8_Witness ==
    /\ Returned
    /\ callCount = 1
    /\ sendCount = 2
    /\ Len(attemptResps) = 2
    /\ attemptResps[1].StatusCode = StatusUnauthorized
    /\ attemptResps[2].StatusCode = StatusOK
    /\ digestAuth.qop = "auth"
    /\ result.resp.StatusCode = StatusOK

\* C9: one invocation of executeHTTPRequest makes at most two sends and at
\* most one challenge parse; when the authenticated resend is answered 401,
\* with or without a challenge, the invocation ends there with the
\* classified error of that second answer.
C9_AtMostTwoSends ==
    /\ Len(attemptSends) <= 2
    /\ Len(attemptResps) <= Len(attemptSends)
    /\ parseCount <= 1
    /\ (/\ Len(attemptResps) = 2
        /\ attemptResps[2].StatusCode = StatusUnauthorized) =>
          /\ Len(attemptSends) = 2
          /\ parseCount = 1
          /\ lastOpErr = parseAPIError(attemptResps[2])
          /\ lastOpErr.StatusCode = StatusUnauthorized
          /\ pc # "send2"

C9_Witness ==
    /\ Len(attemptResps) = 2
    /\ attemptResps[2].StatusCode = StatusUnauthorized
    /\ attemptResps[2].WWWAuthenticate # ""
    /\ parseCount = 1
    /\ IsAPIError(lastOpErr)
    /\ lastOpErr.StatusCode = StatusUnauthorized

\* C10: when the first answer of a logical call is 401 without a
\* WWW-Authenticate header, the call is over after that one send: no
\* challenge parse, no authenticated resend, no retry, and the caller gets
\* an APIError with status 401.
C10_UnauthorizedWithoutChallenge ==
    (/\ callCount = 1
     /\ Len(attemptResps) >= 1
     /\ attemptResps[1].StatusCode = StatusUnauthorized
     /\ attemptResps[1].WWWAuthenticate = "") =>
        /\ Returned
        /\ sendCount = 1
        /\ Len(attemptSends) = 1
        /\ parseCount = 0
        /\ waits = <<>>
        /\ IsAPIError(result.err)
        /\ result.err.StatusCode = StatusUnauthorized
        /\ result.resp = NoResponse

C10_Witness ==
    /\ Returned
    /\ callCount = 1
    /\ sendCount = 1
    /\ Len(attemptResps) = 1
    /\ attemptResps[1].StatusCode = StatusUnauthorized
    /\ attemptResps[1].WWWAuthenticate = ""
    /\ result.err.StatusCode = StatusUnauthorized

\* the request the resource operation prepared for the current logical call
OriginalRequest ==
    CHOOSE r \in Requests : r.Method = req.Method /\ r.Path = req.Path

\* C11: for a request that carries a body, every send of the logical call,
\* the unauthenticated send and the authenticated resend of every
\* invocation, carries the original body in full; the authenticated resend
\* has the method, URL and headers of the original request plus the
\* Authorization header.
C11_BodyOnEverySend ==
    (callCount >= 1 /\ OriginalRequest.Body # NilBody) =>
        /\ \A i \in 1..Len(attemptSends) :
              /\ attemptSends[i].Body = OriginalRequest.Body
              /\ attemptSends[i].Body # ""
              /\ attemptSends[i].Method = OriginalRequest.Method
              /\ attemptSends[i].Path = OriginalRequest.Path
              /\ attemptSends[i].ContentType = OriginalRequest.ContentType
        /\ inflight.Body = OriginalRequest.Body
        /\ Len(attemptSends) >= 1 => attemptSends[1].Authorization = ""
        /\ Len(attemptSends) = 2 =>
              HasPrefix(attemptSends[2].Authorization, "Digest ")

C11_Witness ==
    /\ callCount = 3
    /\ Len(attemptSends) = 2
    /\ OriginalRequest.Body = "{\"endpoint_name\":\"e\"}"
    /\ attemptSends[1].Body = OriginalRequest.Body
    /\ attemptSends[2].Body = OriginalRequest.Body
    /\ attemptSends[2].Authorization # ""

\* C12: whenever the logical call is between two sends, waiting for an
\* answer or in a backoff wait, every response received so far has had its
\* Body closed; when the call has returned, through success, a classified
\* error, a challenge-parse error, a transport error, exhaustion of the
\* retries or cancellation, the only response whose Body is open is the
\* successful response handed to the caller, and that one is open.
C12_NoResponseLeftOpen ==
    /\ pc \in {"send1", "send2", "waiting"} => openBodies = 0
    /\ Returned =>
          /\ result.resp = NoResponse => openBodies = 0
          /\ result.resp # NoResponse =>
                /\ openBodies = 1
                /\ result.resp = attemptResps[Len(attemptResps)]
                /\ result.err = NoError

C12_Witness ==
    /\ Returned
    /\ cancelledWait
    /\ callCount = 2
    /\ Len(attemptResps) = 2
    /\ attemptResps[1].StatusCode = StatusUnauthorized
    /\ attemptResps[2].StatusCode = StatusServiceUnavailable
    /\ result.resp = NoResponse
    /\ openBodies = 0

\* the credential header computed from the challenge goroutine g received
\* and the cnonce generated for it, and from nothing else
HeaderOfOwnChallenge(g) ==
    GenerateAuthHeader(
        ParseChallenge(NewDigestAuth, goAuthHeader[g], goCnonce[g]).auth,
        PublicKey, PrivateKey, ListRequest.Method, ListRequest.Path)

\* C13: when two logical calls run concurrently on one Client, the
\* credential header each of them sends is computed from the challenge
\* that this call received: its realm, nonce, qop, opaque, algorithm and
\* cnonce are those of one challenge, the call's own.
C13_OwnChallengeOnly ==
    \A g \in Goroutines :
        goPc[g] = "send2" => goAuthValue[g] = HeaderOfOwnChallenge(g)

\* C14: when a resource operation fails because the last answer of the
\* server had a status of 400 or more, the error the caller of the
\* operation gets is an errors.APIError value with the status, code,
\* message and details of that answer.
C14_CallerGetsAPIError ==
    (/\ Returned
     /\ ~cancelledWait
     /\ Len(attemptResps) >= 1
     /\ attemptResps[Len(attemptResps)].StatusCode >= 400) =>
        /\ IsAPIError(ResourceOperationReturn(result).err)
        /\ ResourceOperationReturn(result).err =
               parseAPIError(attemptResps[Len(attemptResps)])

\* C15: ShouldRetry(err, attempt) is false whenever attempt >= MaxAttempts,
\* whatever the error; below MaxAttempts it is err.IsRetryable() for an
\* errors.APIError and true for every other error.
C15_ShouldRetryContract ==
    fnReturn.fn = "ShouldRetry" =>
        /\ fnCall.attempt >= fnCall.policy.MaxAttempts =>
              fnReturn.value = FALSE
        /\ (/\ fnCall.attempt < fnCall.policy.MaxAttempts
            /\ fnCall.err.kind = "errors.APIError") =>
              fnReturn.value = IsRetryable(fnCall.err)
        /\ (/\ fnCall.attempt < fnCall.policy.MaxAttempts
            /\ fnCall.err.kind # "errors.APIError") =>
              fnReturn.value = TRUE

C15_Witness ==
    /\ fnReturn.fn = "ShouldRetry"
    /\ fnCall.policy = NewRetryPolicy
    /\ fnCall.attempt = 2
    /\ fnCall.err.kind = "*url.Error"
    /\ fnReturn.value = TRUE

\* C16: IsRetryable() is true exactly for the status codes 429, 500, 502,
\* 503 and 504, whatever the application code, message and details.
C16_RetryableStatuses ==
    fnReturn.fn = "IsRetryable" =>
        fnReturn.value = (fnCall.err.StatusCode \in {429, 500, 502, 503, 504})

C16_Witness ==
    /\ fnReturn.fn = "IsRetryable"
    /\ fnCall.err.StatusCode = 501
    /\ fnCall.err.Code = RateLimitCode
    /\ fnCall.err.Details # <<>>
    /\ fnReturn.value = FALSE

\* C17: IsRateLimitError() is true if and only if the status code is 429 and
\* the application code is 49900007; a 429 with any other application code
\* is not a rate-limit error and is still retryable.
C17_RateLimitSentinel ==
    fnReturn.fn = "IsRateLimitError" =>
        /\ fnReturn.value = (/\ fnCall.err.StatusCode = 429
                             /\ fnCall.err.Code = 49900007)
        /\ (fnCall.err.StatusCode = 429 /\ fnCall.err.Code # 49900007) =>
              /\ fnReturn.value = FALSE
              /\ IsRetryable(fnCall.err)

C17_Witness ==
    /\ fnReturn.fn = "IsRateLimitError"
    /\ fnCall.err.StatusCode = 429
    /\ fnCall.err.Code = 49900001
    /\ fnReturn.value = FALSE
    /\ IsRetryable(fnCall.err)

\* the header values that are integers in base 10
IntegerHeaders == {"1700000000", "-1", "+60"}

IntegerOfHeader(h) ==
    CASE h = "1700000000" -> 1700000000
      [] h = "-1" -> 0 - 1
      [] h = "+60" -> 60

\* C18: parseAPIError appends a rate_limit_reset entry with the header's
\* integer value to the details if and only if the status is 429 and the
\* X-Ratelimit-Reset header is present and an integer; otherwise the details
\* are exactly those decoded from the body.  A 429 answer with the
\* rate-limit code and the header 1700000000 gives details with reset time
\* 1700000000 and an error for which IsRateLimitError() is true.
C18_RateLimitReset ==
    fnReturn.fn = "parseAPIError" =>
        /\ fnReturn.value.Details =
              IF /\ fnCall.resp.StatusCode = 429
                 /\ fnCall.resp.RatelimitReset \in IntegerHeaders
              THEN Append(IF fnCall.resp.Body.decodes
                          THEN fnCall.resp.Body.Details ELSE <<>>,
                          [rate_limit_reset |->
                              IntegerOfHeader(fnCall.resp.RatelimitReset)])
              ELSE IF fnCall.resp.Body.decodes
                   THEN fnCall.resp.Body.Details ELSE <<>>
        /\ (/\ fnCall.resp.StatusCode = 429
            /\ fnCall.resp.Body = RateLimitBody
            /\ fnCall.resp.RatelimitReset = "1700000000") =>
              /\ fnReturn.value.Details = <<[rate_limit_reset |-> 1700000000]>>
              /\ IsRateLimitError(fnReturn.value)

C18_Witness ==
    /\ fnReturn.fn = "parseAPIError"
    /\ fnCall.resp.StatusCode = 429
    /\ fnCall.resp.Body = RateLimitBody
    /\ fnCall.resp.RatelimitReset = "1700000000"
    /\ fnReturn.value.Details = <<[rate_limit_reset |-> 1700000000]>>
    /\ IsRateLimitError(fnReturn.value)

Min64(a, b) == IF Less64(b, a) THEN b ELSE a

RECURSIVE DoubleCapped(_, _, _)
\* min(d * 2^k, cap) for 0 <= d <= cap < 2^62: no value is doubled past
\* 2 * cap, so nothing overflows
DoubleCapped(d, k, cap) ==
    IF k = 0 THEN d
    ELSE CHOOSE r \in {DoubleCapped(x, k - 1, cap) :
                          x \in {Min64(Mul64(Int64(2), d), cap)}} : TRUE

\* min(BaseDelay * 2^(n - 1), MaxDelay) for n >= 1, without overflow
CappedPower(p, n) ==
    DoubleCapped(Min64(p.BaseDelay, p.MaxDelay), n - 1, p.MaxDelay)

\* C19: for every attempt number n >= 1, CalculateDelay(n) is
\* min(BaseDelay * 2^(n-1), MaxDelay), computed without overflow.
C19_DelayIsCappedPower ==
    fnReturn.fn = "CalculateDelay" =>
        fnReturn.value = CappedPower(fnCall.policy, fnCall.attempt)

\* C20: for all n >= 1, CalculateDelay(n) <= CalculateDelay(n + 1) and
\* CalculateDelay(n) <= MaxDelay, in the 64-bit integers of the code.
C20_DelayMonotoneAndCapped ==
    fnReturn.fn = "CalculateDelay" =>
        /\ ~Less64(CalculateDelay(fnCall.policy, fnCall.attempt + 1,
                                  fnCall.conv),
                   fnReturn.value)
        /\ ~Less64(fnCall.policy.MaxDelay, fnReturn.value)

\* C21: ParseChallenge succeeds for every header that starts with "Digest "
\* and has a non-empty realm and a non-empty nonce, and then holds the value
\* of each of realm, nonce, qop, opaque and algorithm that the header has,
\* verbatim, whether the value was quoted or not; it fails for the empty
\* header, for a header that does not start with "Digest ", and for a
\* challenge without a realm or without a nonce.
C21_ParseChallengeContract ==
    fnReturn.fn = "ParseChallenge" =>
        /\ (fnReturn.value.err = NoError) =
              (/\ fnCall.challenge.scheme = "Digest "
               /\ fnCall.challenge.realm.value # ""
               /\ fnCall.challenge.nonce.value # "")
        /\ fnReturn.value.err = NoError =>
              \A i \in 1..Len(ChallengeFields) :
                  fnCall.challenge[ChallengeFields[i]].present =>
                      fnReturn.value.auth[ChallengeFields[i]] =
                          fnCall.challenge[ChallengeFields[i]].value

C21_Witness ==
    /\ fnReturn.fn = "ParseChallenge"
    /\ fnCall.challenge.realm = Param("tidb", FALSE)
    /\ fnCall.challenge.nonce = Param("dcd98b", TRUE)
    /\ fnCall.challenge.qop = Param("auth,auth-int", TRUE)
    /\ fnCall.challenge.opaque = NoParam
    /\ fnCall.challenge.sep = ","
    /\ fnCall.challenge.reversed
    /\ fnCall.d.opaque = "77aa"
    /\ fnReturn.value.err = NoError
    /\ fnReturn.value.auth.realm = "tidb"
    /\ fnReturn.value.auth.qop = "auth,auth-int"
    /\ fnReturn.value.auth.opaque = ""

\* C22: after any sequence of ParseChallenge and GenerateAuthHeader calls
\* on a DigestAuth, GenerateAuthHeader returns the empty string unless an
\* earlier ParseChallenge on that DigestAuth succeeded; it returns a
\* non-empty header only when both realm and nonce are non-empty.
C22_HeaderOnlyAfterSuccessfulParse ==
    \A i \in 1..Len(authLog) :
        (authLog[i].fn = "GenerateAuthHeader" /\ authLog[i].header # "") =>
            /\ \E j \in 1..(i - 1) :
                  /\ authLog[j].fn = "ParseChallenge"
                  /\ authLog[j].err = NoError
            /\ authLog[i].before.realm # ""
            /\ authLog[i].before.nonce # ""

\* the calls i < k < j of authLog are all GenerateAuthHeader calls
NoParseBetween(i, j) ==
    \A k \in (i + 1)..(j - 1) : authLog[k].fn = "GenerateAuthHeader"

\* C23: GenerateAuthHeader leaves every field of the DigestAuth (realm,
\* nonce, qop, opaque, algorithm, nc, cnonce) as it was, and two calls with
\* the same username, password, method and uri and no ParseChallenge
\* between them return the same header, with the same nc and cnonce.
C23_GenerateAuthHeaderIsPure ==
    \A j \in 1..Len(authLog) :
        authLog[j].fn = "GenerateAuthHeader" =>
            /\ authLog[j].after = authLog[j].before
            /\ authLog[j].header =
                  GenerateAuthHeader(authLog[j].before, authLog[j].args[1],
                                     authLog[j].args[2], authLog[j].args[3],
                                     authLog[j].args[4])
            /\ \A i \in 1..(j - 1) :
                  (/\ authLog[i].fn = "GenerateAuthHeader"
                   /\ authLog[i].args = authLog[j].args
                   /\ NoParseBetween(i, j)) =>
                      /\ authLog[i].header = authLog[j].header
                      /\ HeaderField(authLog[i].header, "nc") =
                            HeaderField(authLog[j].header, "nc")
                      /\ HeaderField(authLog[i].header, "cnonce") =
                            HeaderField(authLog[j].header, "cnonce")

C23_Witness ==
    /\ Len(authLog) = 3
    /\ authLog[1].fn = "ParseChallenge"
    /\ authLog[1].err = NoError
    /\ authLog[2].fn = "GenerateAuthHeader"
    /\ authLog[3].fn = "GenerateAuthHeader"
    /\ authLog[2].args = authLog[3].args
    /\ authLog[3].header = authLog[2].header
    /\ HeaderField(authLog[3].header, "nc") = "00000001"
    /\ HeaderField(authLog[3].header, "cnonce") = "e0c2"
    /\ digestAuth = authLog[1].after

\* the index of the first occurrence of sub in s; 0 when there is none
IndexOf(s, sub) ==
    LET hits == {i \in 1..(Len(s) - Len(sub) + 1) :
                    SubSeq(s, i, i + Len(sub) - 1) = sub}
    IN  IF hits = {} THEN 0
        ELSE CHOOSE i \in hits : \A k \in hits : i <= k

Contains(s, sub) == IndexOf(s, sub) > 0

\* the header has username, realm, nonce, uri and response, in that order,
\* and qop, nc and cnonce exactly when the challenge had a qop, and opaque
\* exactly when the challenge had an opaque
FieldsButAlgorithm(header, ch) ==
    /\ IndexOf(header, "Digest username=\"") = 1
    /\ IndexOf(header, "Digest username=\"") < IndexOf(header, ", realm=\"")
    /\ IndexOf(header, ", realm=\"") < IndexOf(header, ", nonce=\"")
    /\ IndexOf(header, ", nonce=\"") < IndexOf(header, ", uri=\"")
    /\ IndexOf(header, ", uri=\"") < IndexOf(header, ", response=\"")
    /\ Contains(header, ", qop=") = ch.qop.present
    /\ Contains(header, ", nc=") = ch.qop.present
    /\ Contains(header, ", cnonce=\"") = ch.qop.present
    /\ Contains(header, ", opaque=\"") = ch.opaque.present

IsLowerHex(s) ==
    \A i \in 1..Len(s) : \E v \in 1..16 : HexDigits[v] = CharAt(s, i)

RECURSIVE HexValue(_, _)
\* the number that the first n digits of s denote in base 16
HexValue(s, n) ==
    IF n = 0 THEN 0
    ELSE 16 * HexValue(s, n - 1)
         + (CHOOSE v \in 0..15 : HexDigits[v + 1] = CharAt(s, n))

\* C25: with H1 = hash(username:realm:password) and H2 = hash(method:uri),
\* the response of the header is hash(H1:nonce:nc8:cnonce:qop:H2) when the
\* stored qop is exactly "auth", where nc8 is the nonce count in 8 lowercase
\* hexadecimal digits and is the nc written in the header; for every other
\* qop, the empty one included, it is hash(H1:nonce:H2).
C25_ResponseDigest ==
    (fnReturn.fn = "GenerateAuthHeader" /\ fnReturn.value # "") =>
        LET d == fnCall.d
            H1 == MD5Hex(fnCall.username \o ":" \o d.realm \o ":"
                         \o fnCall.password)
            H2 == MD5Hex(fnCall.method \o ":" \o fnCall.uri)
            nc8 == HeaderField(fnReturn.value, "nc")
            response == HeaderField(fnReturn.value, "response")
        IN  /\ d.qop = "auth" =>
                  /\ Len(nc8) = 8
                  /\ IsLowerHex(nc8)
                  /\ HexValue(nc8, 8) = d.nc
                  /\ response = MD5Hex(H1 \o ":" \o d.nonce \o ":" \o nc8
                                       \o ":" \o d.cnonce \o ":auth:" \o H2)
            /\ d.qop # "auth" =>
                  response = MD5Hex(H1 \o ":" \o d.nonce \o ":" \o H2)

C25_Witness ==
    /\ fnReturn.fn = "GenerateAuthHeader"
    /\ fnCall.parseErr = NoError
    /\ fnCall.d.qop = "auth"
    /\ fnCall.d.realm = "TiDB Cloud, prod"
    /\ fnCall.d.nonce = "0a4f"
    /\ fnCall.d.cnonce = "e0c2"
    /\ fnCall.method = "POST"
    /\ HeaderField(fnReturn.value, "response") =
          "md5(md5(pub:TiDB Cloud, prod:priv):0a4f:00000001:e0c2:auth:md5(POST:/api/v1beta/projects/p/clusters/c/private_endpoints))"

\* C26: two authenticated requests that a client sends under the same
\* server nonce never carry the same nc: the nonce count starts at 1 and
\* goes up with each authenticated request.  digestAuth before the step
\* holds the nonce and the count of the previous authenticated request
\* whenever the last ParseChallenge succeeded.
C26_NonceCountNeverRepeats ==
    [][(/\ sendCount' = sendCount + 1
        /\ inflight'.Authorization # ""
        /\ digestAuth.realm # ""
        /\ digestAuth.nonce # ""
        /\ digestAuth.qop # ""
        /\ HeaderField(inflight'.Authorization, "nonce") = digestAuth.nonce
        /\ HeaderField(inflight'.Authorization, "nc") # "") =>
          HeaderField(inflight'.Authorization, "nc") # Hex8(digestAuth.nc)]_vars

\* err is what executeHTTPRequest returns when ParseChallenge failed
IsChallengeParseError(err) ==
    /\ err.kind = "*fmt.wrapError"
    /\ HasPrefix(err.msg, "failed to parse auth challenge: ")

\* C27: when a 401 answer carries a WWW-Authenticate header that does not
\* parse, the invocation sends no authenticated request, parses once and
\* fails with an error that is not an APIError; Execute then waits and
\* invokes the operation again while attempt < MaxAttempts, and returns the
\* parse error when the budget is used up.  When every answer of the call
\* is such a 401, the operation is invoked MaxAttempts + 1 times, each time
\* with one unauthenticated send.
C27_ChallengeParseFailure ==
    (pc \in {"waiting", "returned"} /\ IsChallengeParseError(lastOpErr)) =>
        /\ Len(attemptSends) = 1
        /\ attemptSends[1].Authorization = ""
        /\ Len(attemptResps) = 1
        /\ attemptResps[1].StatusCode = StatusUnauthorized
        /\ parseCount = 1
        /\ ~IsAPIError(lastOpErr)
        /\ pc = "waiting" => attempt < policy.MaxAttempts
        /\ (Returned /\ ~cancelledWait) =>
              /\ attempt >= policy.MaxAttempts
              /\ execResult = lastOpErr
              /\ result = [resp |-> NoResponse, err |-> lastOpErr]
        /\ (Returned /\ ~cancelledWait /\ uniformStatus = StatusUnauthorized) =>
              /\ callCount = policy.MaxAttempts + 1
              /\ sendCount = callCount

C27_Witness ==
    /\ Returned
    /\ ~cancelledWait
    /\ policy = NewRetryPolicy
    /\ uniformStatus = StatusUnauthorized
    /\ IsChallengeParseError(lastOpErr)
    /\ lastOpErr.unwrap = PlainError("missing nonce in digest challenge")
    /\ callCount = 4
    /\ sendCount = 4
    /\ result.err = lastOpErr

\* C30: the first send of every invocation of the operation carries no
\* Authorization header, also in a retry and in a later call on a client
\* whose DigestAuth holds a parsed challenge; an Authorization header is
\* sent only on the second send of an invocation, after a 401 answer with a
\* challenge that ParseChallenge accepted in that invocation.
C30_FirstSendUnauthenticated ==
    /\ Len(attemptSends) >= 1 => attemptSends[1].Authorization = ""
    /\ pc = "send1" => inflight.Authorization = ""
    /\ \A i \in 1..Len(attemptSends) :
          attemptSends[i].Authorization # "" =>
              /\ i = 2
              /\ attemptResps[1].StatusCode = StatusUnauthorized
              /\ attemptResps[1].WWWAuthenticate # ""
              /\ parseCount = 1
              /\ \E cn \in CNonces :
                    /\ ParseChallenge(NewDigestAuth,
                           attemptResps[1].WWWAuthenticate, cn).err = NoError
                    /\ attemptSends[i].Authorization =
                          GenerateAuthHeader(
                              ParseChallenge(NewDigestAuth,
                                  attemptResps[1].WWWAuthenticate, cn).auth,
                              PublicKey, PrivateKey, req.Method, req.Path)
    /\ inflight.Authorization # "" =>
          Len(attemptSends) = 2 /\ inflight = attemptSends[2]

C30_Witness ==
    /\ calls = 2
    /\ attempt >= 1
    /\ pc = "send1"
    /\ digestAuth.nonce # ""
    /\ digestAuth.cnonce # ""
    /\ GenerateAuthHeader(digestAuth, PublicKey, PrivateKey,
                          req.Method, req.Path) # ""
    /\ inflight.Authorization = ""
    /\ attemptSends = <<inflight>>

\* C28: NewClient returns an error and a nil client whenever the public key
\* or the private key is empty; with both keys non-empty it returns, without
\* error, a client with the default base URL, a DigestAuth without realm,
\* nonce or any other field and with nonce count 1, and a retry executor
\* with the default policy: MaxAttempts 3, BaseDelay 1s, MaxDelay 30s.
C28_NewClientContract ==
    fnReturn.fn = "NewClient" =>
        IF fnCall.publicKey = "" \/ fnCall.privateKey = ""
        THEN /\ fnReturn.value.err # NoError
             /\ fnReturn.value.client = NilClient
        ELSE /\ fnReturn.value.err = NoError
             /\ fnReturn.value.client.kind = "*Client"
             /\ fnReturn.value.client.baseURL = "https://api.tidbcloud.com"
             /\ fnReturn.value.client.publicKey = fnCall.publicKey
             /\ fnReturn.value.client.privateKey = fnCall.privateKey
             /\ fnReturn.value.client.digestAuth =
                   [realm |-> "", nonce |-> "", qop |-> "", opaque |-> "",
                    algorithm |-> "", nc |-> 1, cnonce |-> ""]
             /\ fnReturn.value.client.retryExecutor.policy =
                   [MaxAttempts |-> 3,
                    BaseDelay |-> <<0, 202, 154, 59, 0, 0, 0, 0>>,
                    MaxDelay |-> <<0, 172, 35, 252, 6, 0, 0, 0>>]

C28_Witness ==
    /\ fnReturn.fn = "NewClient"
    /\ fnCall.publicKey = "test_public_key"
    /\ fnCall.privateKey = ""
    /\ fnReturn.value.client = NilClient
    /\ fnReturn.value.err = PlainError("private key is required")

\* C29: a resource operation called with an empty required identifier
\* (project, cluster, backup, restore or endpoint ID) or with a nil request
\* object returns an error, builds no request to send, and leaves the send
\* count and the DigestAuth of the client as they were.
MissingArgument(call) ==
    \/ call.op.project /\ call.projectID = ""
    \/ call.op.cluster /\ call.clusterID = ""
    \/ call.op.resource # "" /\ call.resourceID = ""
    \/ call.op.takesReq /\ call.body = NilReq

Seconds(n) == Mul64(Int64(n), Second)

\* the waits of the default policy: 1s, 2s, 4s
DefaultBackoff == <<Seconds(1), Seconds(2), Seconds(4)>>

\* C31: the backoff wait that follows the k-th failed invocation of the
\* operation lasts CalculateDelay(k); there is one wait between each pair of
\* consecutive invocations and none after the last one; and a call that
\* fails with a retryable error every time under the default policy waits
\* 1s, 2s and 4s, in that order.
C31_BackoffSchedule ==
    /\ \A k \in 1..Len(waits) : \E conv \in OutOfRangeConversions :
          waits[k] = CalculateDelay(policy, k, conv)
    /\ pc \in {"send1", "send2"} => Len(waits) = callCount - 1
    /\ pc = "waiting" => Len(waits) = callCount /\ delay = waits[callCount]
    /\ (Returned /\ callCount >= 1 /\ ~cancelledWait) =>
          Len(waits) = callCount - 1
    /\ (policy = NewRetryPolicy /\ callCount >= 1 /\ allRetryable) =>
          /\ \A k \in 1..Len(waits) : waits[k] = DefaultBackoff[k]
          /\ (Returned /\ ctxErr = NoError) => waits = DefaultBackoff

C31_Witness ==
    /\ Returned
    /\ policy = NewRetryPolicy
    /\ allRetryable
    /\ ctxErr = NoError
    /\ callCount = 4
    /\ waits = DefaultBackoff

\* C32: the DigestAuth of the client (realm, nonce, qop, opaque, algorithm,
\* nonce count, cnonce) changes only in a step that processes a 401
\* response carrying a challenge header, the answer to the unauthenticated
\* send; every other step of any sequence of logical calls (another status,
\* a 401 without challenge, a transport error, a timer, a cancellation, the
\* start of a call) leaves it as it was.
C32_AuthStateChangesOnlyOnChallenge ==
    [][digestAuth' # digestAuth =>
          /\ pc = "send1"
          /\ Len(attemptResps') = Len(attemptResps) + 1
          /\ attemptResps'[Len(attemptResps')].StatusCode = StatusUnauthorized
          /\ attemptResps'[Len(attemptResps')].WWWAuthenticate # ""]_vars

C32_Witness ==
    /\ Returned
    /\ calls = 2
    /\ uniformStatus = StatusInternalServerError
    /\ Len(waits) >= 1
    /\ digestAuth.realm = "tidbcloud"
    /\ digestAuth.nonce = "dcd98b"
    /\ digestAuth.cnonce # ""

\* C33: after a successful ParseChallenge the DigestAuth holds the realm,
\* nonce, qop and opaque of that challenge, a field the challenge does not
\* have being empty whatever the DigestAuth held before; algorithm is the
\* challenge's value, or "MD5" when the challenge has none; cnonce is the
\* value generated in this call; and the nonce count is untouched.
C33_LatestChallengeStored ==
    (fnReturn.fn = "ParseChallenge" /\ fnReturn.value.err = NoError) =>
        /\ fnReturn.value.auth.realm = fnCall.challenge.realm.value
        /\ fnReturn.value.auth.nonce = fnCall.challenge.nonce.value
        /\ fnReturn.value.auth.qop = fnCall.challenge.qop.value
        /\ fnReturn.value.auth.opaque = fnCall.challenge.opaque.value
        /\ ~fnCall.challenge.qop.present => fnReturn.value.auth.qop = ""
        /\ ~fnCall.challenge.opaque.present => fnReturn.value.auth.opaque = ""
        /\ fnReturn.value.auth.algorithm =
              IF fnCall.challenge.algorithm.present
              THEN fnCall.challenge.algorithm.value ELSE "MD5"
        /\ fnReturn.value.auth.cnonce = fnCall.cnonce
        /\ fnReturn.value.auth.cnonce # fnCall.d.cnonce
        /\ fnReturn.value.auth.nc = fnCall.d.nc

C33_Witness ==
    /\ fnReturn.fn = "ParseChallenge"
    /\ fnReturn.value.err = NoError
    /\ fnCall.d.qop = "auth" /\ fnCall.d.opaque = "77aa"
    /\ fnCall.d.cnonce = "b3d0"
    /\ fnCall.challenge.qop = NoParam
    /\ fnCall.challenge.opaque = NoParam
    /\ fnCall.challenge.algorithm = NoParam
    /\ fnCall.cnonce = "e0c2"
    /\ fnReturn.value.auth.qop = ""
    /\ fnReturn.value.auth.opaque = ""
    /\ fnReturn.value.auth.algorithm = "MD5"
    /\ fnReturn.value.auth.cnonce = "e0c2"

\* Execute is running: an invocation of the operation is under way or a
\* backoff wait is
Executing == pc \in {"send1", "send2", "waiting"}

\* C34: every call of Execute terminates.  When each invocation of the
\* operation returns and each backoff wait ends by its timer or by the
\* context, a running Execute eventually returns (with nil, with the last
\* error or with the context's error), and at no time has it invoked the
\* operation more than MaxAttempts + 1 times or waited more than
\* MaxAttempts times.
C34_ExecuteTerminates ==
    /\ [](/\ callCount <= policy.MaxAttempts + 1
          /\ Len(waits) <= policy.MaxAttempts)
    /\ Executing ~> Returned

C34_Witness ==
    /\ Returned
    /\ policy = NewRetryPolicy
    /\ callCount = policy.MaxAttempts + 1
    /\ Len(waits) = policy.MaxAttempts
    /\ execResult = TransportError("dial tcp: connection refused")

\* C35: a ParseChallenge call that fails (empty header, other scheme,
\* missing realm, missing nonce) leaves the DigestAuth exactly as it was
\* before the call, so that what an earlier successful parse stored is
\* still there for GenerateAuthHeader.
C35_FailedParseChangesNothing ==
    \A i \in 1..Len(authLog) :
        (authLog[i].fn = "ParseChallenge" /\ authLog[i].err # NoError) =>
            authLog[i].after = authLog[i].before

\* C36: Execute called with a context that is already cancelled returns the
\* context's error without invoking the operation, and no invocation of
\* the operation, the first or a later one, starts once the context is
\* cancelled.
C36_NoInvocationAfterCancel ==
    [][/\ (calls' = calls + 1 /\ ctxErr' # NoError) =>
              /\ callCount' = 0
              /\ pc' = "returned"
              /\ execResult' = ctxErr'
       /\ (pc # "send1" /\ pc' = "send1") => ctxErr' = NoError]_vars

\* C37: doRequestWithRetry returns exactly one of a response and an error:
\* (response, nil) only if the last attempt produced a response with a
\* status below 400, and (nil, error) with a non-nil error otherwise; and
\* Execute returns nil only if it invoked the operation at least once and
\* the last invocation returned nil, whatever MaxAttempts the policy has.
C37_ResponseOrError ==
    Returned =>
        /\ (result.resp = NoResponse) # (result.err = NoError)
        /\ result.resp # NoResponse =>
              /\ attemptResps # <<>>
              /\ result.resp = attemptResps[Len(attemptResps)]
              /\ result.resp.StatusCode < 400
        /\ execResult = NoError =>
              /\ callCount >= 1
              /\ lastOpErr = NoError

\* C38: one logical call makes at most 2 * (MaxAttempts + 1) sends, 8 under
\* the default policy: every invocation of the operation makes one
\* unauthenticated send and at most one authenticated send, and there are
\* at most MaxAttempts + 1 invocations; an authenticated send is the second
\* send of its attempt and follows an unauthenticated send that was
\* answered 401 with a challenge.
C38_SendBudget ==
    /\ callCount <= policy.MaxAttempts + 1
    /\ callCount <= sendCount
    /\ sendCount - callCount <= callCount
    /\ sendCount <= 2 * (policy.MaxAttempts + 1)
    /\ policy = NewRetryPolicy => sendCount <= 8
    /\ Len(attemptSends) <= 2
    /\ callCount >= 1 =>
          /\ Len(attemptSends) >= 1
          /\ attemptSends[1].Authorization = ""
    /\ Len(attemptSends) = 2 =>
          /\ attemptSends[2].Authorization # ""
          /\ attemptResps[1].StatusCode = StatusUnauthorized
          /\ attemptResps[1].WWWAuthenticate # ""
    /\ \A i \in 1..Len(attemptSends) :
          attemptSends[i].Authorization # "" => i = 2

C38_Witness ==
    /\ Returned
    /\ policy = NewRetryPolicy
    /\ callCount = 4
    /\ sendCount = 8
    /\ Len(attemptSends) = 2
    /\ attemptSends[2].Authorization # ""

====
